---- MODULE Spec2Model ----
(***************************************************************************)
(* kerux homeserver: the in-memory storage engine (src/storage/mem.rs),    *)
(* the event-append helper (src/util/storage.rs) and the long-poll sync    *)
(* coordinator (src/client_api/room_events.rs).                            *)
(***************************************************************************)
EXTENDS Integers, Sequences, FiniteSets, TLC

\* ---------------------------------------------------------------- bounds
MaxEvents == 4      \* pdus handed to add_pdus over a whole run
MaxBatch == 2       \* pdus in one add_pdus call
MaxSync == 2        \* sync calls in the client's chain
MaxClock == 3       \* ticks of the clock in a run
MaxSyncIds == 3     \* next_batch ids drawn over a whole run
MaxLiveEvents == 3  \* pdus handed to add_pdus beside a sync call under fairness

\* ------------------------------------------------------------ value sets
RoomIds == {"r1", "r2"}
\* the syncing user; member events of the model target this user
User == "u"
Memberships == {"join", "invite"}
NoMembership == "none"
\* Option<usize>: {} is None, {n} is Some(n)
NoneOpt == {}
SomeOpt(n) == {n}
Unwrap(o) == CHOOSE n \in o : TRUE

\* the pdus a caller can hand to add_pdus: room, content kind, membership
PduInputs ==
    [room : RoomIds, kind : {"create", "message"}, membership : {NoMembership}]
      \cup [room : RoomIds, kind : {"member"}, membership : Memberships]

BatchInputs == UNION {[1..n -> PduInputs] : n \in 1..MaxBatch}

VARIABLES
    rooms,        \* MemStorage.rooms: room id -> Room
    batches,      \* MemStorage.batches: token -> Batch
    appended,     \* history: every pdu ever pushed under a room id, in order
    addRes,       \* result of the last add_event call
    \* --- the running sync call (locals of the handler)
    pc,                  \* position of the handler
    since,               \* req.since (Option)
    full_state,          \* req.full_state
    batch,               \* let mut batch
    next_batch_id,       \* let next_batch_id (0 before the first call)
    res,                 \* let mut res: SyncResponse
    memberships,         \* let mut memberships
    todo,                \* rooms the running loop has still to visit
    cur,                 \* the Join arm between query_events and the insert
    something_happened,  \* let mut something_happened
    queries,             \* let mut queries: one wait=true query per joined room
    won,                 \* the query result select_all handed over
    \* --- history of the client's chain of sync calls
    path,         \* the return path the last response took
    delivered,    \* ids of the timeline events earlier responses delivered
    lo,           \* per room: first timeline index the running call returned
    covered,      \* per room: last timeline index the running call looked at
    hadData,      \* the running call saw data when it evaluated a joined room
    invPeriod,    \* per room: ordinal of the user's current Invite period, or 0
    invCount,     \* per room: Invite periods so far
    unjoined,     \* rooms in which the user was joined and later was not
    invSeen,      \* per room: Invite period the running call read
    invDelivered, \* <<room, period>> of the invites earlier responses delivered
    \* --- a caller of query_pdus(wait = true) on its own
    wq,           \* the call: position, bounds, receiver, result
    \* --- callers of the pure functions, each with its inputs and result
    aroom,        \* the room validate_member_event reads through db
    alast,        \* the last validate_member_event call
    lv,           \* the last power-level computation
    qcall,        \* the last query_pdus(wait = false) call
    \* --- the account side of MemStorage and the callers of its operations
    users,          \* MemStorage.users
    access_tokens,  \* MemStorage.access_tokens: token -> username
    txn_ids,        \* MemStorage.txn_ids: token -> set of transaction ids
    callers,        \* per caller: its create_user call, before and after the lock
    ures,           \* the last account operation and its result
    registered,     \* history: <<username, password>> of the successful registers
    issued,         \* history: how many tokens Uuid::new_v4() has handed out
    txnlog,         \* history: per recorded pair, how many calls returned true
    \* --- one call of an identifier conversion
    idcall,         \* the last identifier conversion
    \* --- typing entries of one room against the clock
    clock,          \* Instant::now()
    troom,          \* the Room: its ephemeral map and its typing map
    tcall,          \* the last typing call: its inputs, instant and result
    \* --- one call of a helper or handler outside the sync chain
    acall,          \* the last add_event or read-handler call and its outcome
    sent_ok,        \* history: the (token, txn id) pairs of send_event calls that returned Ok
    low_banned,     \* history: users banned at some point and since then touched only by
                    \* accepted member events of senders below the ban threshold
    calls           \* concurrent sync calls: caller -> the locals of its call

storeVars == <<rooms, batches, appended, addRes>>
syncVars == <<pc, since, full_state, batch, next_batch_id, res, memberships,
              todo, cur, something_happened, queries, won>>
histVars == <<path, delivered, lo, covered, hadData, invSeen, invDelivered>>
periodVars == <<invPeriod, invCount, unjoined>>
acctVars == <<users, access_tokens, txn_ids, callers, ures, registered, issued,
              txnlog>>
typingVars == <<clock, troom, tcall>>
callVars == <<acall, sent_ok, low_banned, calls>>
extraVars == <<idcall, typingVars, callVars>>
pureVars == <<aroom, alast, lv, qcall, acctVars, extraVars>>

\* ---------------------------------------------------------- storage/mem.rs
\* Room::new(): no events, no ephemeral data, nobody typing, a fresh
\* notification channel
RoomNew == [events |-> <<>>, typing |-> {}, ephemeral |-> <<>>]

\* the derived event id: unique per pdu pushed under a room id
EventId(room, n) == <<room, n>>

\* String::new(), the id add_event returns
EmptyId == <<>>

\* an iteration that inserts Room::new() only for a room id not yet known
AddOnePdu_keep(st, p) ==
    LET rs1 == IF p.kind = "create" /\ p.room \notin DOMAIN st.rooms
                 THEN [r \in DOMAIN st.rooms \cup {p.room} |->
                          IF r = p.room THEN RoomNew ELSE st.rooms[r]]
                 ELSE st.rooms
    IN  IF p.room \notin DOMAIN rs1
          THEN [st EXCEPT !.err = TRUE]
          ELSE LET pdu == [id |-> EventId(p.room, Len(st.appended[p.room]) + 1),
                           room |-> p.room, kind |-> p.kind,
                           membership |-> p.membership]
               IN [rooms |-> [rs1 EXCEPT ![p.room].events = Append(@, pdu)],
                   appended |-> [st.appended EXCEPT ![p.room] = Append(@, pdu)],
                   dropped |-> st.dropped,
                   err |-> FALSE]

\* one iteration of the add_pdus loop; st.err is set when get_mut fails
AddOnePdu(st, p) ==
    LET rs1 == IF p.kind = "create"
                 THEN [r \in DOMAIN st.rooms \cup {p.room} |->
                          IF r = p.room THEN RoomNew ELSE st.rooms[r]]
                 ELSE st.rooms
        dropped == IF p.kind = "create" /\ p.room \in DOMAIN st.rooms
                     THEN st.dropped \cup {p.room} ELSE st.dropped
    IN  IF p.room \notin DOMAIN rs1
          THEN [st EXCEPT !.err = TRUE]
          ELSE LET pdu == [id |-> EventId(p.room, Len(st.appended[p.room]) + 1),
                           room |-> p.room, kind |-> p.kind,
                           membership |-> p.membership]
               IN [rooms |-> [rs1 EXCEPT ![p.room].events = Append(@, pdu)],
                   appended |-> [st.appended EXCEPT ![p.room] = Append(@, pdu)],
                   dropped |-> dropped,
                   err |-> FALSE]

\* the add_pdus loop: pdus are pushed in order, `?` leaves at the first
\* RoomNotFound
RECURSIVE AddPdusLoop(_, _)
AddPdusLoop(st, pdus) ==
    IF pdus = <<>> \/ st.err THEN st
    ELSE AddPdusLoop(AddOnePdu(st, Head(pdus)), Tail(pdus))

\* room.events.get(from..=to): None (here the empty slice) when out of range
GetRange_exclusive(events, from, to) ==
    IF from <= to /\ to <= Len(events)
      THEN SubSeq(events, from + 1, to)
      ELSE <<>>

GetRange(events, from, to) ==
    IF from <= to + 1 /\ to + 1 <= Len(events)
      THEN SubSeq(events, from + 1, to + 1)
      ELSE <<>>

\* query_pdus with the range starting one past `from`
query_pdus_eval_skip(events, from, to) ==
    LET t == IF to = NoneOpt THEN Len(events) - 1 ELSE Unwrap(to)
    IN  [events |-> GetRange(events, from + 1, t), timeline_end |-> t]

\* query_pdus, one evaluation: `to` defaults to the last index, the range
\* from..=to is cloned (the sync queries carry no filter, every pdu matches)
query_pdus_eval(events, from, to) ==
    LET t == IF to = NoneOpt THEN Len(events) - 1 ELSE Unwrap(to)
    IN  [events |-> GetRange(events, from, t), timeline_end |-> t]

\* query_pdus: the condition under which the call subscribes and suspends
query_pdus_suspends(ret, wait, is_timeline) ==
    wait /\ ret = <<>> /\ is_timeline

\* query_pdus after recv(): `from = to.unwrap(); to = None`
query_pdus_resume_from(to) == to

\* EventQuery::matches on the type lists: an empty allow list allows every
\* type
matches(query, pdu) ==
    /\ query.types = {} \/ pdu.kind \in query.types
    /\ pdu.kind \notin query.not_types

\* the (from, to) of a query: Timeline { from, to }, or (0, at) for State
QueryBounds(query) ==
    IF query.mode = "timeline" THEN <<query.from, query.to>>
    ELSE <<0, query.to>>

\* query_pdus(query, wait = false): the matching pdus of the range and the
\* `to` it used
query_pdus(events, query) ==
    LET b == QueryBounds(query)
        r == query_pdus_eval(events, b[1], b[2])
    IN  [events |-> SelectSeq(r.events, LAMBDA pdu : matches(query, pdu)),
         timeline_end |-> r.timeline_end]

\* the queries: both modes, every bound, three type filters
Queries ==
    [mode : {"timeline", "state"}, from : 0..MaxEvents,
     to : {NoneOpt} \cup {SomeOpt(n) : n \in 0..MaxEvents},
     types : {{}}, not_types : {{}, {"member"}}]
      \cup [mode : {"timeline", "state"}, from : 0..MaxEvents,
            to : {NoneOpt} \cup {SomeOpt(n) : n \in 0..MaxEvents},
            types : {{"message"}}, not_types : {{}}]

\* the timelines add_pdus can leave a room with: its Create, then pdus that
\* are no Create
RECURSIVE Timelines(_)
Timelines(n) ==
    IF n = 1 THEN {<<[id |-> EventId("r1", 1), room |-> "r1", kind |-> "create",
                      membership |-> NoMembership]>>}
    ELSE Timelines(n - 1) \cup
         {Append(t, [id |-> EventId("r1", Len(t) + 1), room |-> "r1",
                     kind |-> k[1], membership |-> k[2]]) :
            t \in {x \in Timelines(n - 1) : Len(x) = n - 1},
            k \in {<<"message", NoMembership>>, <<"member", "join">>,
                   <<"member", "invite">>}}

\* Storage::query_events: query_pdus with the pdus in client format
query_events(events, from, to) ==
    LET r == query_pdus_eval(events, from, to)
    IN  <<r.events, r.timeline_end>>

\* Storage::get_membership: the user's latest m.room.member event in the room
get_membership(rs, room) ==
    IF room \notin DOMAIN rs THEN NoMembership
    ELSE LET ev == rs[room].events
             ix == {i \in 1..Len(ev) : ev[i].kind = "member"}
         IN  IF ix = {} THEN NoMembership
             ELSE ev[CHOOSE i \in ix : \A j \in ix : j <= i].membership

IsState(pdu) == pdu.kind \in {"create", "member"}

\* Storage::get_full_state: the latest event per (type, state key), in
\* insertion order
get_full_state(rs, room) ==
    LET ev == rs[room].events
        latest == {i \in 1..Len(ev) :
                     /\ IsState(ev[i])
                     /\ \A j \in (i + 1)..Len(ev) : ev[j].kind # ev[i].kind}
        F[i \in 0..Len(ev)] ==
            IF i = 0 THEN <<>>
            ELSE IF i \in latest THEN Append(F[i - 1], ev[i]) ELSE F[i - 1]
    IN  F[Len(ev)]

\* get_batch(id).unwrap_or_default()
BatchDefault == [rooms |-> <<>>, invites |-> {}]
get_batch(bs, id) ==
    IF id # NoneOpt /\ Unwrap(id) \in DOMAIN bs THEN bs[Unwrap(id)]
    ELSE BatchDefault

\* batch.rooms.get(room_id).map(|v| *v).unwrap_or(0)
BatchPos(b, room) == IF room \in DOMAIN b.rooms THEN b.rooms[room] ELSE 0

\* map.insert(k, v)
Insert(f, k, v) == [x \in DOMAIN f \cup {k} |-> IF x = k THEN v ELSE f[x]]

\* set_batch that drops the write
set_batch_lost(bs, id, b) == bs

\* MemStorageHandle::set_batch
set_batch(bs, id, b) == Insert(bs, id, b)

\* the cursor insert storing the last index instead of one past it
AdvanceCursor_last(b, room, progress) ==
    [b EXCEPT !.rooms = Insert(@, room, progress)]

\* batch.rooms.insert(room_id.clone(), progress + 1)
AdvanceCursor(b, room, progress) ==
    [b EXCEPT !.rooms = Insert(@, room, progress + 1)]

\* the Invite arm without the mark
MarkInvite_none(b, room) == b

\* batch.invites.insert(room_id.clone())
MarkInvite(b, room) == [b EXCEPT !.invites = @ \cup {room}]

\* batch.invites.remove(room_id)
UnmarkInvite(b, room) == [b EXCEPT !.invites = @ \ {room}]

ResEmpty == [join |-> <<>>, invite |-> <<>>]
NoCur == [room |-> "r1", events |-> <<>>]
NoWon == [room |-> "r1", events |-> <<>>, progress |-> 0]

\* the lone query_pdus call before it starts
NoQuery == [st |-> "idle", room |-> "r1", from |-> 0, to |-> 0, sent |-> 0,
            closed |-> FALSE, evals |-> 0, events |-> <<>>, timeline_end |-> 0,
            writers |-> {}]

\* recv() that takes only a single pending message for a wake
RecvCompletes_nolag(w) == w.sent = 1 \/ w.closed

\* `let _ = recv.recv().await` returns: Ok(()) on one message sent since
\* subscribe(), Err(Lagged) on several (capacity 1), Err(Closed) when the
\* Sender was dropped; the result is discarded, each of them resumes the call
RecvCompletes(w) == w.sent >= 1 \/ w.closed

\* notify_send.send(()) seen from a receiver: messages sent since subscribe()
\* (2 stands for "more than one")
Sent(n) == IF n >= 1 THEN 2 ELSE 1

\* the lone call's receiver after a write: `sends` are the rooms whose channel
\* was sent on, `drops` the rooms whose Room was replaced, `op` names the write
NotifyQuery(w, sends, drops, op) ==
    IF w.st # "waiting" THEN w
    ELSE [w EXCEPT
            !.sent = IF w.room \in sends /\ ~w.closed THEN Sent(@) ELSE @,
            !.closed = @ \/ w.room \in drops,
            !.writers = IF w.room \in sends THEN @ \cup {op} ELSE @]

\* ------------------------------------------- util/mxid.rs, util/domain.rs
\* a string is the sequence of its pieces (characters, or runs of characters
\* of one class); an Id<P> is a localpart and a domain
MaxIdLen == 5       \* pieces of an identifier string after its first

\* pieces a user localpart may hold ([a-z0-9-_.=/]), pieces of a host name
\* and pieces of a port
LocalpartPieces == {"a", "8", "alice", "bob"}
HostPieces == {"a", "A", "8", "hs"}
PortPieces == {"8"}

\* the longest identifier, in bytes
IdLimit == 255

Colons(s) == {i \in 1..Len(s) : s[i] = ":"}
FirstColon(s) == CHOOSE i \in Colons(s) : \A j \in Colons(s) : i <= j

\* Domain::is_valid: a host name, then optionally a colon and a port
DomainIsValid(d) ==
    IF Colons(d) = {} THEN Len(d) >= 1 /\ \A i \in 1..Len(d) : d[i] \in HostPieces
    ELSE LET k == FirstColon(d)
         IN  /\ Cardinality(Colons(d)) = 1
             /\ 1 < k /\ k < Len(d)
             /\ \A i \in 1..(k - 1) : d[i] \in HostPieces
             /\ \A i \in (k + 1)..Len(d) : d[i] \in PortPieces

\* Id::validate_parts
validate_parts(P, localpart, domain) ==
    IF P = "@" /\ \E i \in 1..Len(localpart) : localpart[i] \notin LocalpartPieces
      THEN "InvalidChar"
    ELSE IF Len(localpart) + Len(domain) + 1 + 1 > IdLimit THEN "TooLong"
    ELSE "Ok"

\* what is left of the colon-separated parts after the localpart, joined by
\* colons again
DomainPart_firstonly(remaining) ==
    LET rest == SubSeq(remaining, FirstColon(remaining) + 1, Len(remaining))
    IN  IF Colons(rest) = {} THEN rest
        ELSE SubSeq(rest, 1, FirstColon(rest) - 1)

DomainPart(remaining) ==
    SubSeq(remaining, FirstColon(remaining) + 1, Len(remaining))

\* Id::validate_all: the error, or the localpart and the domain
validate_all(P, mxid) ==
    LET none(e) == [err |-> e, localpart |-> <<>>, domain |-> <<>>]
    IN  IF Len(mxid) = 0 \/ mxid[1] # P THEN none("NoLeadingChar")
        ELSE LET remaining == Tail(mxid)
             IN  IF Colons(remaining) = {} THEN none("WrongNumberOfColons")
                 ELSE LET localpart == SubSeq(remaining, 1,
                                              FirstColon(remaining) - 1)
                          domain == DomainPart(remaining)
                      IN  IF ~DomainIsValid(domain) THEN none("InvalidDomain")
                          ELSE [err |-> validate_parts(P, localpart, domain),
                                localpart |-> localpart, domain |-> domain]

\* FromStr for Id<P>: the Id, or None for the MxidError
from_str(P, value) ==
    LET v == validate_all(P, value)
    IN  IF v.err = "Ok" THEN SomeOpt([localpart |-> v.localpart,
                                      domain |-> v.domain])
        ELSE NoneOpt

\* Display for Id<P>: "{P}{local}:{domain}"
to_string(P, id) == <<P>> \o id.localpart \o <<":">> \o id.domain

\* Id<'!'>::new_with_random_local: sixteen upper-case hex digits of a random
\* i64 (here runs of four digits) and the domain, if they fit
new_with_random_local(local, domain) ==
    IF Len(domain) + 2 + Len(local) > IdLimit THEN NoneOpt
    ELSE SomeOpt([localpart |-> local, domain |-> domain])

RandomLocals == {<<"8888", "8888", "8888", "8888">>,
                 <<"FFFF", "FFFF", "FFFF", "FFF8">>,
                 <<"8A8A", "0000", "0000", "0001">>}
Domains == {<<"hs">>, <<"a", ":", "8">>}

\* identifier strings: a first piece, then up to MaxIdLen more
IdStrings ==
    {<<>>} \cup
    {<<f>> \o t : f \in {"@", "!", "a"},
                  t \in UNION {[1..n -> {"@", ":", "a", "A", "8"}] : n \in 0..MaxIdLen}}

Alice == [localpart |-> <<"alice">>, domain |-> <<"hs">>]
Bob == [localpart |-> <<"bob">>, domain |-> <<"hs">>]
AuthUsers == {Alice, Bob}

\* Display for Id<'@'>
as_str(id) == to_string("@", id)

\* TryFrom<String> for Id<'@'>; None stands for the MxidError
try_into(s) == from_str("@", s)

\* state keys a member event can carry: absent, a user id, or a string that
\* is no user id
StateKeys ==
    {NoneOpt} \cup {SomeOpt(as_str(u)) : u \in AuthUsers}
      \cup {SomeOpt(<<"bob", ":", "hs">>)}

\* ---------------------------------------------------------- events/room.rs
UnwrapOr(o, d) == IF o = NoneOpt THEN d ELSE Unwrap(o)

\* PowerLevels::no_event_default_levels
no_event_default_levels_unset(room_creator) ==
    [ban |-> NoneOpt, invite |-> NoneOpt, kick |-> NoneOpt,
     redact |-> NoneOpt, events |-> <<>>, events_default |-> NoneOpt,
     state_default |-> NoneOpt, users |-> Insert(<<>>, room_creator, 100),
     users_default |-> NoneOpt]

no_event_default_levels(room_creator) ==
    [ban |-> SomeOpt(50), invite |-> SomeOpt(50), kick |-> SomeOpt(50),
     redact |-> SomeOpt(50), events |-> <<>>, events_default |-> SomeOpt(0),
     state_default |-> SomeOpt(0), users |-> Insert(<<>>, room_creator, 100),
     users_default |-> SomeOpt(0)]

\* PowerLevels::ban, invite, kick
ban(pl) == UnwrapOr(pl.ban, 50)
invite(pl) == UnwrapOr(pl.invite, 50)
kick(pl) == UnwrapOr(pl.kick, 50)

\* PowerLevels::get_user_level
get_user_level(pl, user_id) ==
    IF user_id \in DOMAIN pl.users THEN pl.users[user_id]
    ELSE UnwrapOr(pl.users_default, 0)

\* PowerLevels::redact, events_default, state_default, users_default
redact(pl) == UnwrapOr(pl.kick, 50)
events_default(pl) == UnwrapOr(pl.events_default, 0)
state_default(pl) == UnwrapOr(pl.state_default, 50)
users_default(pl) == UnwrapOr(pl.users_default, 0)

\* PowerLevels::get_event_level
get_event_level(pl, event_type, is_state_event) ==
    IF event_type \in DOMAIN pl.events THEN pl.events[event_type]
    ELSE IF is_state_event THEN UnwrapOr(pl.state_default, 50)
    ELSE UnwrapOr(pl.events_default, 0)

EventTypes == {"m.room.message", "m.room.name"}

\* power-levels contents: every field left out, one of ban, invite and kick
\* raised, all three lowered, with nobody or one user listed
AuthLevels ==
    {no_event_default_levels(Alice)} \cup
    {[ban |-> t[1], invite |-> t[2], kick |-> t[3], redact |-> NoneOpt,
      events |-> <<>>, events_default |-> NoneOpt, state_default |-> NoneOpt,
      users |-> t[4], users_default |-> NoneOpt] :
        t \in {<<NoneOpt, NoneOpt, NoneOpt, <<>> >>,
               <<NoneOpt, NoneOpt, NoneOpt, Insert(<<>>, Bob, 50)>>,
               <<NoneOpt, NoneOpt, NoneOpt, Insert(<<>>, Alice, 100)>>,
               <<SomeOpt(100), NoneOpt, NoneOpt, Insert(<<>>, Bob, 50)>>,
               <<NoneOpt, SomeOpt(100), NoneOpt, Insert(<<>>, Bob, 50)>>,
               <<NoneOpt, NoneOpt, SomeOpt(100), Insert(<<>>, Bob, 50)>>,
               <<SomeOpt(0), SomeOpt(0), SomeOpt(0), <<>> >>}}

\* -------------------------------------------------------- util/storage.rs
\* what validate_member_event reads through db: get_membership per user and
\* the join-rules state event, and the power levels its caller hands in
AuthRooms ==
    [members : {[u \in AuthUsers |-> IF u = Alice THEN a ELSE b] :
                  a \in {NoneOpt, SomeOpt("join"), SomeOpt("ban")},
                  b \in {NoneOpt} \cup {SomeOpt(m) :
                          m \in {"join", "invite", "leave", "ban", "knock"}}},
     join_rule : {NoneOpt, SomeOpt("public"), SomeOpt("invite")},
     power_levels : AuthLevels]

MemberEvents ==
    [sender : AuthUsers, state_key : StateKeys,
     membership : {"join", "leave", "ban", "invite", "knock"}]

\* the Join arm
ValidateJoin_inviteignored(db, event, affected_user, prev_membership) ==
    IF affected_user # event.sender THEN "InvalidEvent"
    ELSE IF prev_membership = SomeOpt("join") THEN "Ok"
    ELSE IF prev_membership = SomeOpt("ban") THEN "UserBanned"
    ELSE IF db.join_rule = SomeOpt("public") THEN "Ok"
    ELSE "UserNotInvited"

ValidateJoin_banfallsthrough(db, event, affected_user, prev_membership) ==
    IF affected_user # event.sender THEN "InvalidEvent"
    ELSE IF prev_membership \in {SomeOpt("join"), SomeOpt("invite")} THEN "Ok"
    ELSE IF db.join_rule = SomeOpt("public") THEN "Ok"
    ELSE "UserNotInvited"

ValidateJoin(db, event, affected_user, prev_membership) ==
    IF affected_user # event.sender THEN "InvalidEvent"
    ELSE IF prev_membership \in {SomeOpt("join"), SomeOpt("invite")} THEN "Ok"
    ELSE IF prev_membership = SomeOpt("ban") THEN "UserBanned"
    ELSE IF db.join_rule = SomeOpt("public") THEN "Ok"
    ELSE "UserNotInvited"

\* the Leave arm: leaving is free, kicking needs the kick level
ValidateLeave_selfchecked(event, sender_membership, power_levels) ==
    IF sender_membership # SomeOpt("join") THEN "UserNotInRoom"
    ELSE IF get_user_level(power_levels, event.sender) < kick(power_levels)
      THEN "InsufficientPowerLevel"
    ELSE "Ok"

ValidateLeave(event, sender_membership, power_levels) ==
    IF sender_membership # SomeOpt("join") THEN "UserNotInRoom"
    ELSE IF /\ event.state_key # SomeOpt(as_str(event.sender))
            /\ get_user_level(power_levels, event.sender) < kick(power_levels)
      THEN "InsufficientPowerLevel"
    ELSE "Ok"

\* the Ban arm
ValidateBan_powerfirst(event, sender_membership, power_levels) ==
    IF get_user_level(power_levels, event.sender) < ban(power_levels)
      THEN "InsufficientPowerLevel"
    ELSE IF sender_membership # SomeOpt("join") THEN "UserNotInRoom"
    ELSE "Ok"

ValidateBan(event, sender_membership, power_levels) ==
    IF sender_membership # SomeOpt("join") THEN "UserNotInRoom"
    ELSE IF get_user_level(power_levels, event.sender) < ban(power_levels)
      THEN "InsufficientPowerLevel"
    ELSE "Ok"

\* the Invite arm
ValidateInvite(event, sender_membership, power_levels) ==
    IF sender_membership # SomeOpt("join") THEN "UserNotInRoom"
    ELSE IF get_user_level(power_levels, event.sender) < invite(power_levels)
      THEN "InsufficientPowerLevel"
    ELSE "Ok"

\* validate_member_event: Ok(()), the AddEventError it returns, or "panic"
\* for the unimplemented!() of the Knock arm
validate_member_event(db, event, power_levels) ==
    LET sender_membership == db.members[event.sender]
        parsed == IF event.state_key = NoneOpt THEN NoneOpt
                  ELSE try_into(Unwrap(event.state_key))
    IN IF parsed = NoneOpt THEN "InvalidEvent"
       ELSE LET affected_user == Unwrap(parsed)
                prev_membership == IF affected_user \in DOMAIN db.members
                                     THEN db.members[affected_user] ELSE NoneOpt
            IN CASE event.membership = "join" ->
                      ValidateJoin(db, event, affected_user, prev_membership)
                 [] event.membership = "leave" ->
                      ValidateLeave(event, sender_membership, power_levels)
                 [] event.membership = "ban" ->
                      ValidateBan(event, sender_membership, power_levels)
                 [] event.membership = "invite" ->
                      ValidateInvite(event, sender_membership, power_levels)
                 [] event.membership = "knock" -> "panic"

\* the membership an accepted member event leaves its target with
ApplyMember(room, event) ==
    [room EXCEPT !.members[Unwrap(try_into(Unwrap(event.state_key)))] =
                    SomeOpt(event.membership)]

\* what get_pdu finds under an auth event id: a create event, a power-levels
\* event, another event, or nothing
AuthEvents ==
    [kind : {"create"}, creator : AuthUsers]
      \cup [kind : {"power_levels"},
            levels : {no_event_default_levels(Bob),
                      [no_event_default_levels(Bob) EXCEPT !.users_default = SomeOpt(50)]}]
      \cup {[kind |-> "member"], [kind |-> "join_rules"], [kind |-> "missing"]}

MaxAuth == 2
AuthLists == UNION {[1..n -> AuthEvents] : n \in 0..MaxAuth}

\* the loop of get_sender_power_level from its i-th auth event on
RECURSIVE SenderLevelLoop(_, _, _, _)
SenderLevelLoop(auth, i, sender, create_event_content) ==
    IF i > Len(auth)
      THEN IF create_event_content = NoneOpt THEN "panic"
           ELSE IF sender = Unwrap(create_event_content) THEN 100 ELSE 0
    ELSE IF auth[i].kind = "missing" THEN "panic"
    ELSE IF auth[i].kind = "power_levels"
      THEN get_user_level(auth[i].levels, sender)
    ELSE IF auth[i].kind = "create"
      THEN SenderLevelLoop(auth, i + 1, sender, SomeOpt(auth[i].creator))
    ELSE SenderLevelLoop(auth, i + 1, sender, create_event_content)

\* StorageExt::get_sender_power_level for a stored event: its level, or
\* "panic" for the expect() on a missing auth event or a missing create
get_sender_power_level(sender, auth) ==
    SenderLevelLoop(auth, 1, sender, NoneOpt)

NoLevelsCall == [op |-> "none"]
NoQueryCall == [op |-> "none"]

NoCall == [called |-> FALSE, db |-> <<>>, event |-> <<>>, result |-> "none"]

Ids(events) == {events[i].id : i \in 1..Len(events)}
\* ids of the timeline events a response carries
ResIds(r) == UNION {Ids(r.join[x].timeline) : x \in DOMAIN r.join}

InitStore ==
    /\ rooms = <<>>
    /\ batches = <<>>
    /\ appended = [r \in RoomIds |-> <<>>]
    /\ addRes = [ok |-> FALSE, room |-> "r1", event_id |-> EmptyId, len |-> 0,
                 kind |-> "none", sender_membership |-> NoMembership]

\* no sync call, no waiting query
InitSync ==
    /\ pc = "idle"
    /\ since = NoneOpt
    /\ full_state = FALSE
    /\ batch = BatchDefault
    /\ next_batch_id = 0
    /\ res = ResEmpty
    /\ memberships = <<>>
    /\ todo = {}
    /\ cur = NoCur
    /\ something_happened = FALSE
    /\ queries = <<>>
    /\ won = NoWon
    /\ path = "none"
    /\ delivered = {}
    /\ lo = <<>>
    /\ covered = <<>>
    /\ hadData = FALSE
    /\ invPeriod = [r \in RoomIds |-> 0]
    /\ invCount = [r \in RoomIds |-> 0]
    /\ unjoined = {}
    /\ invSeen = <<>>
    /\ invDelivered = {}
    /\ wq = NoQuery

\* ------------------------------------------------ storage/mem.rs: accounts
MaxTokens == 2      \* access tokens handed out over a whole run

\* usernames are strings of one piece
Usernames == {<<"alice">>, <<"bob">>}
Passwords == {"p1", "p2"}
Salts == {"s1"}
DisplayNames == {"d1"}
Callers == {"c1", "c2"}

\* argon2::hash_encoded: the salt and the digest of salt and password
hash_encoded(password, salt) == [salt |-> salt, digest |-> <<salt, password>>]

\* argon2::verify_encoded: the digest recomputed from the stored salt
verify_encoded(password_hash, password) ==
    password_hash.digest = <<password_hash.salt, password>>

HasUser(us, username) == \E i \in 1..Len(us) : us[i].username = username

\* the User that create_user pushes
UserNew(username, password_hash) ==
    [username |-> username, password_hash |-> password_hash,
     displayname |-> NoneOpt, account_data |-> <<>>]

\* create_user under the write lock: the any() test and the push
create_user_nocheck(us, username, password_hash) ==
    [ok |-> TRUE, users |-> Append(us, UserNew(username, password_hash))]

create_user(us, username, password_hash) ==
    IF HasUser(us, username) THEN [ok |-> FALSE, users |-> us]
    ELSE [ok |-> TRUE, users |-> Append(us, UserNew(username, password_hash))]

\* verify_password: false for an unknown user and for a failed verification
verify_password_any(us, username, password) == HasUser(us, username)

verify_password(us, username, password) ==
    \E i \in 1..Len(us) :
        /\ us[i].username = username
        /\ \A j \in 1..(i - 1) : us[j].username # username
        /\ verify_encoded(us[i].password_hash, password)

\* try_auth
try_auth(tokens, token) ==
    IF token \in DOMAIN tokens THEN SomeOpt(tokens[token]) ELSE NoneOpt

\* delete_access_token: access_tokens.remove(&token)
delete_access_token_all(tokens, token) == <<>>

delete_access_token(tokens, token) ==
    [t \in DOMAIN tokens \ {token} |-> tokens[t]]

\* delete_all_access_tokens: retain the tokens of the other users
delete_all_access_tokens(tokens, token) ==
    IF token \notin DOMAIN tokens THEN tokens
    ELSE [t \in {x \in DOMAIN tokens : tokens[x] # tokens[token]} |-> tokens[t]]

\* create_access_token under the write lock; Uuid::new_v4() is a token no
\* earlier call returned
create_access_token(us, tokens, n, username) ==
    IF ~HasUser(us, username)
      THEN [ok |-> FALSE, token |-> NoneOpt, tokens |-> tokens]
      ELSE [ok |-> TRUE, token |-> SomeOpt(n + 1),
            tokens |-> Insert(tokens, n + 1, username)]

\* login: the username is the localpart when the identifier parses as a user
\* id, and the identifier itself when it does not
LoginUsername(user) ==
    IF try_into(user) # NoneOpt THEN Unwrap(try_into(user)).localpart
    ELSE user

LoginIdentifiers == Usernames \cup {as_str(Alice)}
Tokens == 0..MaxTokens

MaxTxnCalls == 4    \* record_txn calls over a whole run
TxnStrings == {"txn1", "txn2"}

\* record_txn under the write lock: the set of the token, created on first
\* use, and HashSet::insert, which is true for a new element
record_txn_anytoken(txns, token, txn_id) ==
    LET set == IF token \in DOMAIN txns THEN txns[token] ELSE {}
    IN  [first |-> \A t \in DOMAIN txns : txn_id \notin txns[t],
         txn_ids |-> Insert(txns, token, set \cup {txn_id})]

record_txn(txns, token, txn_id) ==
    LET set == IF token \in DOMAIN txns THEN txns[token] ELSE {}
    IN  [first |-> txn_id \notin set,
         txn_ids |-> Insert(txns, token, set \cup {txn_id})]

NoCaller == [st |-> "idle", username |-> <<>>, password_hash |-> <<>>,
             raced |-> FALSE, result |-> "none"]
NoResult == [op |-> "none"]

InitAcct ==
    /\ users = <<>>
    /\ access_tokens = <<>>
    /\ txn_ids = <<>>
    /\ callers = [c \in Callers |-> NoCaller]
    /\ ures = NoResult
    /\ registered = {}
    /\ issued = 0
    /\ txnlog = <<>>

\* the callers that run sync concurrently
SyncCallers == {1, 2}

\* the locals of a sync call that has not started
IdleCall == [pc |-> "idle", since |-> NoneOpt, known |-> FALSE,
             start |-> BatchDefault, batch |-> BatchDefault,
             next_batch_id |-> 0, memberships |-> <<>>, todo |-> {},
             something_happened |-> FALSE]
NoCalls == [c \in SyncCallers |-> IdleCall]

\* no helper call has been made
InitCalls ==
    /\ acall = [op |-> "none"]
    /\ sent_ok = {}
    /\ low_banned = {}
    /\ calls = NoCalls

InitExtra ==
    /\ idcall = [op |-> "none"]
    /\ clock = 0
    /\ troom = [ephemeral |-> <<>>, typing |-> <<>>]
    /\ tcall = [op |-> "none"]
    /\ InitCalls

\* the room of validate_member_event as its creator leaves it
AuthRoomNew ==
    [members |-> [u \in AuthUsers |->
                    IF u = Alice THEN SomeOpt("join") ELSE NoneOpt],
     join_rule |-> SomeOpt("invite"),
     power_levels |-> no_event_default_levels(Alice)]

Init ==
    /\ InitStore
    /\ InitSync
    /\ aroom = AuthRoomNew
    /\ alast = NoCall
    /\ lv = NoLevelsCall
    /\ qcall = NoQueryCall
    /\ InitAcct
    /\ InitExtra

\* validate_member_event over every room state and power-levels content
InitAuth ==
    /\ InitStore
    /\ InitSync
    /\ aroom \in AuthRooms
    /\ alast = NoCall
    /\ lv = NoLevelsCall
    /\ qcall = NoQueryCall
    /\ InitAcct
    /\ InitExtra

\* validate_member_event on every room that holds a banned user
InitBan ==
    /\ InitStore
    /\ InitSync
    /\ aroom \in {a \in AuthRooms :
                    \E u \in AuthUsers : a.members[u] = SomeOpt("ban")}
    /\ alast = NoCall
    /\ lv = NoLevelsCall
    /\ qcall = NoQueryCall
    /\ InitAcct
    /\ idcall = [op |-> "none"]
    /\ clock = 0
    /\ troom = [ephemeral |-> <<>>, typing |-> <<>>]
    /\ tcall = [op |-> "none"]
    /\ acall = [op |-> "none"]
    /\ sent_ok = {}
    /\ low_banned = {u \in AuthUsers : aroom.members[u] = SomeOpt("ban")}
    /\ calls = NoCalls

\* query_pdus over every timeline a room can hold
InitQuery ==
    /\ \E t \in Timelines(MaxEvents) :
          /\ rooms = Insert(<<>>, "r1", [RoomNew EXCEPT !.events = t])
          /\ appended = [r \in RoomIds |-> IF r = "r1" THEN t ELSE <<>>]
    /\ batches = <<>>
    /\ addRes = [ok |-> FALSE, room |-> "r1", event_id |-> EmptyId, len |-> 0,
                 kind |-> "none", sender_membership |-> NoMembership]
    /\ InitSync
    /\ aroom = AuthRoomNew
    /\ alast = NoCall
    /\ lv = NoLevelsCall
    /\ qcall = NoQueryCall
    /\ InitAcct
    /\ InitExtra

\* the identifier conversions over every string
InitId ==
    /\ InitStore
    /\ InitSync
    /\ aroom = AuthRoomNew
    /\ alast = NoCall
    /\ lv = NoLevelsCall
    /\ qcall = NoQueryCall
    /\ InitAcct
    /\ idcall \in {[op |-> "input", s |-> s] : s \in IdStrings}
    /\ clock = 0
    /\ troom = [ephemeral |-> <<>>, typing |-> <<>>]
    /\ tcall = [op |-> "none"]
    /\ InitCalls

\* a room whose typing map is empty, with or without other ephemeral data
InitTyping ==
    /\ InitStore
    /\ InitSync
    /\ aroom = AuthRoomNew
    /\ alast = NoCall
    /\ lv = NoLevelsCall
    /\ qcall = NoQueryCall
    /\ InitAcct
    /\ idcall = [op |-> "none"]
    /\ clock = 0
    /\ troom \in {[ephemeral |-> e, typing |-> <<>>] :
                    e \in {<<>>, Insert(<<>>, "m.receipt", "c1")}}
    /\ tcall = [op |-> "none"]
    /\ InitCalls

\* a store with room r1 and two logged-in users
InitSend ==
    /\ LET create == [id |-> EventId("r1", 1), room |-> "r1", kind |-> "create",
                      membership |-> NoMembership]
       IN /\ rooms = Insert(<<>>, "r1", [RoomNew EXCEPT !.events = <<create>>])
          /\ appended = [r \in RoomIds |-> IF r = "r1" THEN <<create>> ELSE <<>>]
    /\ batches = <<>>
    /\ addRes = [ok |-> FALSE, room |-> "r1", event_id |-> EmptyId, len |-> 0,
                 kind |-> "none", sender_membership |-> NoMembership]
    /\ InitSync
    /\ aroom = AuthRoomNew
    /\ alast = NoCall
    /\ lv = NoLevelsCall
    /\ qcall = NoQueryCall
    /\ users = <<UserNew(<<"alice">>, hash_encoded("p1", "s1")),
                 UserNew(<<"bob">>, hash_encoded("p1", "s1"))>>
    /\ access_tokens = Insert(Insert(<<>>, 1, <<"alice">>), 2, <<"bob">>)
    /\ txn_ids = <<>>
    /\ callers = [c \in Callers |-> NoCaller]
    /\ ures = NoResult
    /\ registered = {}
    /\ issued = 2
    /\ txnlog = <<>>
    /\ InitExtra

TotalAppended == Len(appended["r1"]) + Len(appended["r2"])

\* notify_send.send(()) on the given rooms, or their Sender being dropped:
\* every receiver subscribed to one of them has its recv() complete
Notify(qs, rs) ==
    [r \in DOMAIN qs |->
        IF r \in rs /\ qs[r].st = "waiting"
          THEN [qs[r] EXCEPT !.notified = TRUE] ELSE qs[r]]

\* the user's Invite periods: a new one starts when a write makes the
\* membership Invite, the current one ends when a write makes it anything else
PeriodAfter(rs2, r) ==
    IF get_membership(rs2, r) # "invite" THEN 0
    ELSE IF invPeriod[r] # 0 THEN invPeriod[r] ELSE invCount[r] + 1

\* MemStorageHandle::add_pdus, under the write lock
AddPdus(pdus) ==
    /\ TotalAppended + Len(pdus) <= MaxEvents
    /\ LET st == AddPdusLoop([rooms |-> rooms, appended |-> appended,
                              dropped |-> {}, err |-> FALSE], pdus)
       IN /\ rooms' = st.rooms
          /\ appended' = st.appended
          /\ queries' = Notify(queries, st.dropped)
          /\ wq' = NotifyQuery(wq, {}, st.dropped, "add_pdus")
          /\ invPeriod' = [r \in RoomIds |-> PeriodAfter(st.rooms, r)]
          /\ invCount' = [r \in RoomIds |->
                IF PeriodAfter(st.rooms, r) > invCount[r]
                  THEN invCount[r] + 1 ELSE invCount[r]]
          /\ unjoined' = unjoined \cup
                {r \in RoomIds : /\ get_membership(rooms, r) = "join"
                                 /\ get_membership(st.rooms, r) # "join"}
    /\ UNCHANGED <<batches, addRes, histVars>>
    /\ UNCHANGED <<pc, since, full_state, batch, next_batch_id, res,
                   memberships, todo, cur, something_happened, won>>
    /\ UNCHANGED pureVars

\* MemStorageHandle::get_pdu: the pdus of the room with that event id
get_pdu(rs, room, event_id) ==
    IF room \notin DOMAIN rs THEN {}
    ELSE {rs[room].events[i] : i \in {j \in 1..Len(rs[room].events) :
                                        rs[room].events[j].id = event_id}}

\* StorageExt::add_event for a non-create event of a room whose state
\* resolves, sent by User: the auth events are collected and dropped, nothing
\* is checked and nothing is stored
AddEvent(room, kind) ==
    /\ kind # "create"
    /\ room \in DOMAIN rooms
    /\ addRes' = [ok |-> TRUE, room |-> room, event_id |-> EmptyId,
                  len |-> Len(rooms[room].events), kind |-> kind,
                  sender_membership |-> get_membership(rooms, room)]
    /\ UNCHANGED <<rooms, batches, appended, syncVars, histVars, periodVars>>
    /\ UNCHANGED <<wq, pureVars>>

\* MemStorageHandle::set_typing, under the write lock
SetTyping(room, is_typing) ==
    /\ room \in DOMAIN rooms
    /\ rooms' = [rooms EXCEPT ![room].typing =
                    IF is_typing THEN @ \cup {User} ELSE @ \ {User}]
    /\ queries' = Notify(queries, {room})
    /\ wq' = NotifyQuery(wq, {room}, {}, "set_typing")
    /\ UNCHANGED <<batches, appended, addRes, histVars, periodVars>>
    /\ UNCHANGED <<pc, since, full_state, batch, next_batch_id, res,
                   memberships, todo, cur, something_happened, won>>
    /\ UNCHANGED pureVars

EphemeralTypes == {"m.receipt"}
EphemeralContents == {"c1"}

\* MemStorageHandle::set_ephemeral, under the write lock (event_type is never
\* "m.typing": the assert); content None removes the entry
SetEphemeral(room, event_type, content) ==
    /\ room \in DOMAIN rooms
    /\ rooms' = [rooms EXCEPT ![room].ephemeral =
                    IF content = NoneOpt
                      THEN [t \in DOMAIN @ \ {event_type} |-> @[t]]
                      ELSE Insert(@, event_type, Unwrap(content))]
    /\ queries' = Notify(queries, {room})
    /\ wq' = NotifyQuery(wq, {room}, {}, "set_ephemeral")
    /\ UNCHANGED <<batches, appended, addRes, histVars, periodVars>>
    /\ UNCHANGED <<pc, since, full_state, batch, next_batch_id, res,
                   memberships, todo, cur, something_happened, won>>
    /\ UNCHANGED pureVars

\* query_pdus(Timeline {from, to: None}, wait = true), up to the return or the
\* subscribe(): the evaluation and the subscription share one read guard
WaitQueryStart(room, from) ==
    /\ wq.st \in {"idle", "done"}
    /\ room \in DOMAIN rooms
    /\ LET r == query_pdus_eval(rooms[room].events, from, NoneOpt)
       IN wq' = IF query_pdus_suspends(r.events, TRUE, TRUE)
                  THEN [NoQuery EXCEPT !.st = "waiting", !.room = room,
                          !.from = from, !.to = r.timeline_end, !.evals = 1]
                  ELSE [NoQuery EXCEPT !.st = "done", !.room = room,
                          !.from = from, !.evals = 1, !.events = r.events,
                          !.timeline_end = r.timeline_end]
    /\ UNCHANGED <<storeVars, syncVars, histVars, periodVars, pureVars>>

\* query_pdus after recv() returned: the second evaluation and the return
WaitQueryResume ==
    /\ wq.st = "waiting"
    /\ RecvCompletes(wq)
    /\ LET r == query_pdus_eval(rooms[wq.room].events,
                                query_pdus_resume_from(wq.to), NoneOpt)
       IN wq' = [wq EXCEPT !.st = "done", !.evals = @ + 1,
                           !.events = r.events,
                           !.timeline_end = r.timeline_end]
    /\ UNCHANGED <<storeVars, syncVars, histVars, periodVars, pureVars>>

\* ------------------------------------------ client_api/room_events.rs: sync
JoinedRooms(ms) == {r \in DOMAIN ms : ms[r] = "join"}

\* the arms of the first loop that do something: Join, and Invite when the
\* cursor does not hold the room's invite mark
EvalRooms(ms, b) ==
    {r \in DOMAIN ms : ms[r] = "join" \/ (ms[r] = "invite" /\ r \notin b.invites)}

\* the wait=true queries of the joined rooms, not yet polled
BuildQueries(ms, b) ==
    [r \in JoinedRooms(ms) |->
        [st |-> "init", from |-> BatchPos(b, r), to |-> 0, notified |-> FALSE]]

\* try_auth, get_batch, the fresh next_batch_id, the empty response, get_rooms
SyncStart(fs) ==
    /\ pc \in {"idle", "returned"}
    /\ next_batch_id < MaxSync
    /\ since' = IF next_batch_id = 0 THEN NoneOpt ELSE SomeOpt(next_batch_id)
    /\ full_state' = fs
    /\ batch' = get_batch(batches, since')
    /\ next_batch_id' = next_batch_id + 1
    /\ res' = ResEmpty
    /\ memberships' = <<>>
    /\ todo' = DOMAIN rooms
    /\ something_happened' = FALSE
    /\ pc' = IF DOMAIN rooms = {} THEN "decide" ELSE "memberships"
    /\ delivered' = delivered \cup ResIds(res)
    /\ invDelivered' = invDelivered \cup {<<r, invSeen[r]>> : r \in DOMAIN res.invite}
    /\ path' = "none"
    /\ lo' = <<>>
    /\ covered' = <<>>
    /\ hadData' = FALSE
    /\ invSeen' = <<>>
    /\ UNCHANGED <<storeVars, periodVars, cur, queries, won>>

    /\ UNCHANGED <<wq, pureVars>>
\* first loop: get_membership of one room of the get_rooms list
SyncGetMembership(room) ==
    /\ pc = "memberships"
    /\ room \in todo
    /\ LET m == get_membership(rooms, room)
           ms == IF m # NoMembership THEN Insert(memberships, room, m)
                 ELSE memberships
       IN /\ memberships' = ms
          /\ invSeen' = IF m = "invite" THEN Insert(invSeen, room, invPeriod[room])
                        ELSE invSeen
          /\ IF todo = {room}
               THEN /\ todo' = EvalRooms(ms, batch)
                    /\ pc' = IF EvalRooms(ms, batch) = {} THEN "decide" ELSE "eval"
               ELSE /\ todo' = todo \ {room}
                    /\ pc' = "memberships"
    /\ UNCHANGED <<storeVars, periodVars, since, full_state, batch, next_batch_id,
                   res, cur, something_happened, queries, won>>
    /\ UNCHANGED <<path, delivered, lo, covered, hadData, invDelivered>>

    /\ UNCHANGED <<wq, pureVars>>
\* Join arm, up to query_events and the cursor insert
SyncJoinQuery(room) ==
    /\ pc = "eval"
    /\ room \in todo
    /\ memberships[room] = "join"
    /\ LET from == BatchPos(batch, room)
           q == query_events(rooms[room].events, from, NoneOpt)
       IN /\ batch' = AdvanceCursor(UnmarkInvite(batch, room), room, q[2])
          /\ cur' = [room |-> room, events |-> q[1]]
          /\ lo' = Insert(lo, room, from)
          /\ covered' = Insert(covered, room, Len(rooms[room].events) - 1)
          /\ hadData' = (hadData \/ Len(rooms[room].events) > from)
    /\ pc' = "join_rest"
    /\ UNCHANGED <<storeVars, periodVars, since, full_state, next_batch_id, res,
                   memberships, todo, something_happened, queries, won>>
    /\ UNCHANGED <<path, delivered, invSeen, invDelivered>>

    /\ UNCHANGED <<wq, pureVars>>
\* Join arm, the rest: get_full_state, something_happened, the member counts,
\* get_all_ephemeral and the insert into res.rooms.join
SyncJoinRest ==
    /\ pc = "join_rest"
    /\ LET room == cur.room
           state_events == IF full_state THEN get_full_state(rooms, room) ELSE <<>>
       IN /\ something_happened' =
                (something_happened \/ cur.events # <<>> \/ state_events # <<>>)
          /\ res' = [res EXCEPT !.join = Insert(@, room,
                        [timeline |-> cur.events, state |-> state_events,
                         ephemeral |-> rooms[room].typing])]
          /\ hadData' = (hadData \/ (full_state /\ get_full_state(rooms, room) # <<>>))
          /\ todo' = todo \ {room}
          /\ pc' = IF todo = {room} THEN "decide" ELSE "eval"
    /\ cur' = NoCur
    /\ UNCHANGED <<storeVars, periodVars, since, full_state, batch, next_batch_id,
                   memberships, queries, won>>
    /\ UNCHANGED <<path, delivered, lo, covered, invSeen, invDelivered>>

    /\ UNCHANGED <<wq, pureVars>>
\* Invite arm: the stripped state, the insert into res.rooms.invite, the mark
SyncInvite(room) ==
    /\ pc = "eval"
    /\ room \in todo
    /\ memberships[room] = "invite"
    /\ room \notin batch.invites
    /\ res' = [res EXCEPT !.invite = Insert(@, room, get_full_state(rooms, room))]
    /\ batch' = MarkInvite(batch, room)
    /\ todo' = todo \ {room}
    /\ pc' = IF todo = {room} THEN "decide" ELSE "eval"
    /\ UNCHANGED <<storeVars, periodVars, since, full_state, next_batch_id,
                   memberships, cur, something_happened, queries, won>>
    /\ UNCHANGED histVars

    /\ UNCHANGED <<wq, pureVars>>
\* `if something_happened`: persist and respond
SyncRespondNow ==
    /\ pc = "decide"
    /\ something_happened
    /\ batches' = set_batch(batches, next_batch_id, batch)
    /\ pc' = "returned"
    /\ path' = "immediate"
    /\ UNCHANGED <<rooms, appended, addRes, periodVars>>
    /\ UNCHANGED <<since, full_state, batch, next_batch_id, res, memberships,
                   todo, cur, something_happened, queries, won>>
    /\ UNCHANGED <<delivered, lo, covered, hadData, invSeen, invDelivered>>

    /\ UNCHANGED <<wq, pureVars>>
\* nothing happened and no joined room: persist, then sleep
SyncNoRooms ==
    /\ pc = "decide"
    /\ ~something_happened
    /\ BuildQueries(memberships, batch) = <<>>
    /\ batches' = set_batch(batches, next_batch_id, batch)
    /\ pc' = "sleeping"
    /\ UNCHANGED <<rooms, appended, addRes, periodVars, histVars>>
    /\ UNCHANGED <<since, full_state, batch, next_batch_id, res, memberships,
                   todo, cur, something_happened, queries, won>>

    /\ UNCHANGED <<wq, pureVars>>
\* sleep(timeout) is over: respond
SyncSleepDone ==
    /\ pc = "sleeping"
    /\ pc' = "returned"
    /\ path' = "nojoin"
    /\ UNCHANGED <<storeVars, periodVars>>
    /\ UNCHANGED <<since, full_state, batch, next_batch_id, res, memberships,
                   todo, cur, something_happened, queries, won>>
    /\ UNCHANGED <<delivered, lo, covered, hadData, invSeen, invDelivered>>

    /\ UNCHANGED <<wq, pureVars>>
\* nothing happened, some joined room: build the queries and enter select!
SyncEnterSelect ==
    /\ pc = "decide"
    /\ ~something_happened
    /\ BuildQueries(memberships, batch) # <<>>
    /\ queries' = BuildQueries(memberships, batch)
    /\ pc' = "select"
    /\ UNCHANGED <<storeVars, periodVars, histVars>>
    /\ UNCHANGED <<since, full_state, batch, next_batch_id, res, memberships,
                   todo, cur, something_happened, won>>

    /\ UNCHANGED <<wq, pureVars>>
\* a timer that never fires
SyncTimeout_never ==
    /\ pc = "select"
    /\ FALSE
    /\ UNCHANGED <<storeVars, syncVars, histVars, periodVars, wq, pureVars>>

\* select!: the timer wins
SyncTimeout ==
    /\ pc = "select"
    /\ batches' = set_batch(batches, next_batch_id, batch)
    /\ queries' = <<>>
    /\ pc' = "returned"
    /\ path' = "timeout"
    /\ UNCHANGED <<rooms, appended, addRes, periodVars>>
    /\ UNCHANGED <<since, full_state, batch, next_batch_id, res, memberships,
                   todo, cur, something_happened, won>>
    /\ UNCHANGED <<delivered, lo, covered, hadData, invSeen, invDelivered>>

    /\ UNCHANGED <<wq, pureVars>>
\* a query future is polled for the first time: query_pdus under the read
\* lock; it returns its range, or subscribes and suspends when that is empty
SyncQueryPoll(room) ==
    /\ pc = "select"
    /\ room \in DOMAIN queries
    /\ queries[room].st = "init"
    /\ LET from == queries[room].from
           r == query_pdus_eval(rooms[room].events, from, NoneOpt)
       IN IF query_pdus_suspends(r.events, TRUE, TRUE)
            THEN /\ queries' = [queries EXCEPT ![room] =
                        [st |-> "waiting", from |-> from,
                         to |-> r.timeline_end, notified |-> FALSE]]
                 /\ UNCHANGED <<pc, won, lo, covered>>
            ELSE /\ won' = [room |-> room, events |-> r.events,
                            progress |-> r.timeline_end]
                 /\ queries' = <<>>
                 /\ pc' = "won"
                 /\ lo' = Insert(lo, room, from)
                 /\ covered' = Insert(covered, room, Len(rooms[room].events) - 1)
    /\ UNCHANGED <<storeVars, periodVars>>
    /\ UNCHANGED <<since, full_state, batch, next_batch_id, res, memberships,
                   todo, cur, something_happened>>
    /\ UNCHANGED <<path, delivered, hadData, invSeen, invDelivered>>

    /\ UNCHANGED <<wq, pureVars>>
\* a suspended query's recv() has completed: the second evaluation
SyncQueryWake(room) ==
    /\ pc = "select"
    /\ room \in DOMAIN queries
    /\ queries[room].st = "waiting"
    /\ queries[room].notified
    /\ LET from == query_pdus_resume_from(queries[room].to)
           r == query_pdus_eval(rooms[room].events, from, NoneOpt)
       IN /\ won' = [room |-> room, events |-> r.events,
                     progress |-> r.timeline_end]
          /\ lo' = Insert(lo, room, from)
          /\ covered' = Insert(covered, room, Len(rooms[room].events) - 1)
    /\ queries' = <<>>
    /\ pc' = "won"
    /\ UNCHANGED <<storeVars, periodVars>>
    /\ UNCHANGED <<since, full_state, batch, next_batch_id, res, memberships,
                   todo, cur, something_happened>>
    /\ UNCHANGED <<path, delivered, hadData, invSeen, invDelivered>>

    /\ UNCHANGED <<wq, pureVars>>
\* a response built anew from the winning query alone
WonResponse_fresh(r, w, typing) ==
    [join |-> Insert(<<>>, w.room,
                  [timeline |-> w.events, state |-> <<>>,
                   ephemeral |-> typing]),
     invite |-> <<>>]

\* res.rooms.join.insert(room_id, JoinedRoom {..}) of the winning query into
\* the response of the first phase
WonResponse(r, w, typing) ==
    [r EXCEPT !.join = Insert(@, w.room,
                  [timeline |-> w.events, state |-> <<>>,
                   ephemeral |-> typing])]

\* select!: a query won: the member counts, the cursor insert, the room's
\* delta, set_batch and the response
SyncWon ==
    /\ pc = "won"
    /\ LET b == AdvanceCursor(batch, won.room, won.progress)
       IN /\ batch' = b
          /\ batches' = set_batch(batches, next_batch_id, b)
    /\ res' = WonResponse(res, won, rooms[won.room].typing)
    /\ won' = NoWon
    /\ pc' = "returned"
    /\ path' = "wait"
    /\ UNCHANGED <<rooms, appended, addRes, periodVars>>
    /\ UNCHANGED <<since, full_state, next_batch_id, memberships,
                   todo, cur, something_happened, queries>>
    /\ UNCHANGED <<delivered, lo, covered, hadData, invSeen, invDelivered>>

    /\ UNCHANGED <<wq, pureVars>>
\* one member event through validate_member_event; an accepted one becomes
\* its target's membership
MemberEvent(event) ==
    /\ LET result == validate_member_event(aroom, event, aroom.power_levels)
       IN /\ alast' = [called |-> TRUE, db |-> aroom, event |-> event,
                       result |-> result]
          /\ aroom' = IF result = "Ok" THEN ApplyMember(aroom, event) ELSE aroom
    /\ UNCHANGED <<storeVars, syncVars, histVars, periodVars, wq, lv, qcall>>
    /\ UNCHANGED <<acctVars, extraVars>>

\* the users whose membership is Ban
Banned(room) == {u \in AuthUsers : room.members[u] = SomeOpt("ban")}

\* one member event through validate_member_event in a room with a banned
\* user, the chain of low senders since the ban being followed
WatchedMemberEvent(event) ==
    /\ LET result == validate_member_event(aroom, event, aroom.power_levels)
           after == IF result = "Ok" THEN ApplyMember(aroom, event) ELSE aroom
           low == get_user_level(aroom.power_levels, event.sender)
                    < ban(aroom.power_levels)
       IN /\ alast' = [called |-> TRUE, db |-> aroom, event |-> event,
                       result |-> result]
          /\ aroom' = after
          /\ low_banned' = Banned(after) \cup
                (IF result # "Ok" \/ low THEN low_banned ELSE {})
    /\ UNCHANGED <<storeVars, syncVars, histVars, periodVars, wq, lv, qcall>>
    /\ UNCHANGED <<acctVars, idcall, typingVars, acall, sent_ok, calls>>

\* the levels of a room without power-levels event, as its readers see them
DefaultLevels(creator, user, event_type, is_state_event) ==
    /\ LET pl == no_event_default_levels(creator)
       IN lv' = [op |-> "defaults", creator |-> creator, user |-> user,
                 is_state_event |-> is_state_event,
                 user_level |-> get_user_level(pl, user),
                 event_level |-> get_event_level(pl, event_type, is_state_event),
                 state_default |-> state_default(pl),
                 events_default |-> events_default(pl),
                 users_default |-> users_default(pl),
                 ban |-> ban(pl), invite |-> invite(pl), kick |-> kick(pl),
                 redact |-> redact(pl)]
    /\ UNCHANGED <<storeVars, syncVars, histVars, periodVars, wq>>
    /\ UNCHANGED <<aroom, alast, qcall, acctVars, extraVars>>

\* power-levels contents with every threshold set or left out
LevelValues ==
    [ban : {NoneOpt, SomeOpt(75)}, invite : {NoneOpt, SomeOpt(75)},
     kick : {NoneOpt, SomeOpt(0), SomeOpt(75)},
     redact : {NoneOpt, SomeOpt(0), SomeOpt(25)},
     events : {<<>>},
     events_default : {NoneOpt, SomeOpt(75)},
     state_default : {NoneOpt, SomeOpt(75)},
     users : {<<>>}, users_default : {NoneOpt}]

\* the threshold accessors of one PowerLevels value
Accessors(pl) ==
    /\ lv' = [op |-> "accessors", pl |-> pl,
              ban |-> ban(pl), invite |-> invite(pl), kick |-> kick(pl),
              redact |-> redact(pl),
              events_default |-> events_default(pl),
              state_default |-> state_default(pl)]
    /\ UNCHANGED <<storeVars, syncVars, histVars, periodVars, wq>>
    /\ UNCHANGED <<aroom, alast, qcall, acctVars, extraVars>>

\* get_sender_power_level on an event of the sender with these auth events
SenderLevel(sender, auth) ==
    /\ lv' = [op |-> "sender", sender |-> sender, auth |-> auth,
              result |-> get_sender_power_level(sender, auth)]
    /\ UNCHANGED <<storeVars, syncVars, histVars, periodVars, wq>>
    /\ UNCHANGED <<aroom, alast, qcall, acctVars, extraVars>>

\* query_pdus(query, wait = false) on a room, under the read lock
Query(room, query) ==
    /\ room \in DOMAIN rooms
    /\ (query.mode = "state" => query.from = 0)
    /\ LET r == query_pdus(rooms[room].events, query)
       IN qcall' = [op |-> query.mode, query |-> query,
                    room_events |-> rooms[room].events,
                    events |-> r.events, timeline_end |-> r.timeline_end]
    /\ UNCHANGED <<storeVars, syncVars, histVars, periodVars, wq>>
    /\ UNCHANGED <<aroom, alast, lv, acctVars, extraVars>>

\* create_user up to the write lock: the salt is drawn and the password
\* hashed; two calls for a free username are then in flight together
CreateUserHash(c, username, password, salt) ==
    /\ callers[c].st \in {"idle", "done"}
    /\ LET together(o) == /\ o # c
                          /\ callers[o].st = "hashed"
                          /\ callers[o].username = username
                          /\ ~HasUser(users, username)
       IN callers' = [o \in Callers |->
            IF o = c
              THEN [st |-> "hashed", username |-> username,
                    password_hash |-> hash_encoded(password, salt),
                    raced |-> \E x \in Callers : together(x),
                    result |-> "none"]
            ELSE IF together(o) THEN [callers[o] EXCEPT !.raced = TRUE]
            ELSE callers[o]]
    /\ UNCHANGED <<users, access_tokens, txn_ids, ures, registered, issued, txnlog>>
    /\ UNCHANGED <<storeVars, syncVars, histVars, periodVars, wq>>
    /\ UNCHANGED <<aroom, alast, lv, qcall, extraVars>>

\* create_user under the write lock
CreateUserLocked(c) ==
    /\ callers[c].st = "hashed"
    /\ LET r == create_user(users, callers[c].username, callers[c].password_hash)
       IN /\ users' = r.users
          /\ callers' = [callers EXCEPT ![c].st = "done",
                            ![c].password_hash = <<>>,
                            ![c].result = IF r.ok THEN "Ok" ELSE "UsernameTaken"]
    /\ UNCHANGED <<access_tokens, txn_ids, ures, registered, issued, txnlog>>
    /\ UNCHANGED <<storeVars, syncVars, histVars, periodVars, wq>>
    /\ UNCHANGED <<aroom, alast, lv, qcall, extraVars>>

\* set_display_name under the write lock
SetDisplayName(username, display_name) ==
    /\ HasUser(users, username)
    /\ users' = [i \in 1..Len(users) |->
                    IF /\ users[i].username = username
                       /\ \A j \in 1..(i - 1) : users[j].username # username
                      THEN [users[i] EXCEPT !.displayname = SomeOpt(display_name)]
                      ELSE users[i]]
    /\ UNCHANGED <<access_tokens, txn_ids, callers, ures, registered, issued, txnlog>>
    /\ UNCHANGED <<storeVars, syncVars, histVars, periodVars, wq>>
    /\ UNCHANGED <<aroom, alast, lv, qcall, extraVars>>

\* register with a username and a password: create_user, and unless
\* inhibit_login a token for the new user
Register(username, password, salt, inhibit_login) ==
    /\ inhibit_login \/ issued < MaxTokens
    /\ LET r == create_user(users, username, hash_encoded(password, salt))
           t == create_access_token(r.users, access_tokens, issued, username)
           login == r.ok /\ ~inhibit_login
       IN /\ users' = r.users
          /\ access_tokens' = IF login THEN t.tokens ELSE access_tokens
          /\ issued' = IF login THEN issued + 1 ELSE issued
          /\ registered' = IF r.ok THEN registered \cup {<<username, password>>}
                           ELSE registered
          /\ ures' = [op |-> "register", username |-> username,
                      result |-> IF r.ok THEN "Ok" ELSE "UsernameTaken",
                      token |-> IF login THEN t.token ELSE NoneOpt]
    /\ UNCHANGED <<txn_ids, callers, txnlog>>
    /\ UNCHANGED <<storeVars, syncVars, histVars, periodVars, wq>>
    /\ UNCHANGED <<aroom, alast, lv, qcall, extraVars>>

\* login with a user identifier and a password: verify_password, then
\* create_access_token
Login(user, password) ==
    /\ issued < MaxTokens
    /\ LET username == LoginUsername(user)
           verified == verify_password(users, username, password)
           t == create_access_token(users, access_tokens, issued, username)
       IN /\ access_tokens' = IF verified THEN t.tokens ELSE access_tokens
          /\ issued' = IF verified THEN issued + 1 ELSE issued
          /\ ures' = [op |-> "login", username |-> username,
                      password |-> password,
                      result |-> IF ~verified THEN "Forbidden"
                                 ELSE IF t.ok THEN "Ok" ELSE "UserNotFound",
                      token |-> IF verified THEN t.token ELSE NoneOpt,
                      resolves |-> IF verified /\ t.ok
                                     THEN try_auth(t.tokens, Unwrap(t.token))
                                     ELSE NoneOpt,
                      created |-> verified /\ t.tokens # access_tokens]
    /\ UNCHANGED <<users, txn_ids, callers, registered, txnlog>>
    /\ UNCHANGED <<storeVars, syncVars, histVars, periodVars, wq>>
    /\ UNCHANGED <<aroom, alast, lv, qcall, extraVars>>

\* logout: delete_access_token
Logout(token) ==
    /\ access_tokens' = delete_access_token(access_tokens, token)
    /\ ures' = [op |-> "logout", token |-> token,
                user |-> try_auth(access_tokens, token)]
    /\ UNCHANGED <<users, txn_ids, callers, registered, issued, txnlog>>
    /\ UNCHANGED <<storeVars, syncVars, histVars, periodVars, wq>>
    /\ UNCHANGED <<aroom, alast, lv, qcall, extraVars>>

\* logout_all: delete_all_access_tokens
LogoutAll(token) ==
    /\ access_tokens' = delete_all_access_tokens(access_tokens, token)
    /\ ures' = [op |-> "logout_all", token |-> token,
                user |-> try_auth(access_tokens, token)]
    /\ UNCHANGED <<users, txn_ids, callers, registered, issued, txnlog>>
    /\ UNCHANGED <<storeVars, syncVars, histVars, periodVars, wq>>
    /\ UNCHANGED <<aroom, alast, lv, qcall, extraVars>>

\* the record_txn calls so far
TxnCalls ==
    LET F[S \in SUBSET DOMAIN txnlog] ==
            IF S = {} THEN 0
            ELSE LET k == CHOOSE x \in S : TRUE
                 IN  txnlog[k].calls + F[S \ {k}]
    IN  F[DOMAIN txnlog]

\* record_txn(token, txn_id)
RecordTxn(token, txn_id) ==
    /\ TxnCalls < MaxTxnCalls
    /\ LET r == record_txn(txn_ids, token, txn_id)
           k == <<token, txn_id>>
           old == IF k \in DOMAIN txnlog THEN txnlog[k]
                  ELSE [calls |-> 0, trues |-> 0]
       IN /\ txn_ids' = r.txn_ids
          /\ ures' = [op |-> "record_txn", token |-> token, txn_id |-> txn_id,
                      result |-> r.first]
          /\ txnlog' = Insert(txnlog, k,
                          [calls |-> old.calls + 1,
                           trues |-> IF r.first THEN old.trues + 1 ELSE old.trues])
    /\ UNCHANGED <<users, access_tokens, callers, registered, issued>>
    /\ UNCHANGED <<storeVars, syncVars, histVars, periodVars, wq>>
    /\ UNCHANGED <<aroom, alast, lv, qcall, extraVars>>

\* a string parsed as Id<P>, printed again and parsed again
RoundTrip(P) ==
    /\ idcall.op = "input"
    /\ LET parsed == from_str(P, idcall.s)
           printed == IF parsed = NoneOpt THEN <<>>
                      ELSE to_string(P, Unwrap(parsed))
       IN idcall' = [op |-> "roundtrip", P |-> P, s |-> idcall.s,
                     parsed |-> parsed, printed |-> printed,
                     reparsed |-> IF parsed = NoneOpt THEN NoneOpt
                                  ELSE from_str(P, printed)]
    /\ UNCHANGED <<storeVars, syncVars, histVars, periodVars, wq>>
    /\ UNCHANGED <<aroom, alast, lv, qcall, acctVars, typingVars, callVars>>

\* RoomId::new_with_random_local, printed and parsed
RandomRoomId(local, domain) ==
    /\ idcall.op = "input"
    /\ LET id == new_with_random_local(local, domain)
       IN idcall' = [op |-> "random", id |-> id,
                     reparsed |-> IF id = NoneOpt THEN NoneOpt
                                  ELSE from_str("!", to_string("!", Unwrap(id)))]
    /\ UNCHANGED <<storeVars, syncVars, histVars, periodVars, wq>>
    /\ UNCHANGED <<aroom, alast, lv, qcall, acctVars, typingVars, callVars>>

\* the typing loop of get_ephemeral and get_all_ephemeral with an entry kept
\* at its expiry instant
TypingUsers_inclusive(typing, now) == {u \in DOMAIN typing : typing[u] >= now}

\* room.typing.iter().filter(|(_, timeout)| **timeout > now): Typing.user_ids
TypingUsers(typing, now) == {u \in DOMAIN typing : typing[u] > now}

\* MemStorageHandle::get_ephemeral: the computed m.typing content, or the
\* stored content of another type
get_ephemeral(room, event_type, now) ==
    IF event_type = "m.typing" THEN SomeOpt(TypingUsers(room.typing, now))
    ELSE IF event_type \in DOMAIN room.ephemeral
           THEN SomeOpt(room.ephemeral[event_type])
           ELSE NoneOpt

\* MemStorageHandle::get_all_ephemeral: the stored map with m.typing inserted
get_all_ephemeral(room, now) ==
    Insert(room.ephemeral, "m.typing", TypingUsers(room.typing, now))

\* MemStorageHandle::set_typing on the typing map
set_typing(typing, user_id, is_typing, timeout, now) ==
    IF is_typing THEN Insert(typing, user_id, now + timeout)
    ELSE [u \in DOMAIN typing \ {user_id} |-> typing[u]]

\* timeouts a caller passes, in clock ticks
Timeouts == {0, 1, 2}

\* time passes
Tick ==
    /\ clock < MaxClock
    /\ clock' = clock + 1
    /\ UNCHANGED <<troom, tcall, idcall, callVars>>
    /\ UNCHANGED <<storeVars, syncVars, histVars, periodVars, wq>>
    /\ UNCHANGED <<aroom, alast, lv, qcall, acctVars>>

\* set_typing under the write lock
TypingSet(user_id, is_typing, timeout) ==
    /\ troom' = [troom EXCEPT !.typing =
                    set_typing(@, user_id, is_typing, timeout, clock)]
    /\ tcall' = [op |-> "set_typing", user_id |-> user_id,
                 is_typing |-> is_typing, timeout |-> timeout, now |-> clock,
                 before |-> troom.typing]
    /\ UNCHANGED <<clock, idcall, callVars>>
    /\ UNCHANGED <<storeVars, syncVars, histVars, periodVars, wq>>
    /\ UNCHANGED <<aroom, alast, lv, qcall, acctVars>>

\* get_ephemeral under the read lock
GetEphemeral(event_type) ==
    /\ tcall' = [op |-> "get_ephemeral", event_type |-> event_type,
                 now |-> clock, before |-> troom.typing,
                 result |-> get_ephemeral(troom, event_type, clock)]
    /\ UNCHANGED <<clock, troom, idcall, callVars>>
    /\ UNCHANGED <<storeVars, syncVars, histVars, periodVars, wq>>
    /\ UNCHANGED <<aroom, alast, lv, qcall, acctVars>>

\* get_all_ephemeral under the read lock
GetAllEphemeral ==
    /\ tcall' = [op |-> "get_all_ephemeral", now |-> clock,
                 before |-> troom.typing,
                 result |-> get_all_ephemeral(troom, clock)]
    /\ UNCHANGED <<clock, troom, idcall, callVars>>
    /\ UNCHANGED <<storeVars, syncVars, histVars, periodVars, wq>>
    /\ UNCHANGED <<aroom, alast, lv, qcall, acctVars>>

\* State::get keys: (event type, state key); "" is the empty sequence
StateKey(type, state_key) == [type |-> type, state_key |-> state_key]
CreateKey == StateKey("m.room.create", <<>>)
PowerLevelsKey == StateKey("m.room.power_levels", <<>>)
JoinRulesKey == StateKey("m.room.join_rules", <<>>)
MemberKey(s) == StateKey("m.room.member", s)

\* the resolved state of a room: (type, state key) -> event id; the create
\* event is there, every other event may be
ResolvedStates ==
    {[k \in {CreateKey} \cup ks |-> <<"$", k>>] :
        ks \in SUBSET ({PowerLevelsKey, JoinRulesKey,
                        StateKey("m.room.name", <<>>)}
                       \cup {MemberKey(as_str(u)) : u \in AuthUsers})}

\* the candidate events of add_event: messages, and member events
NewEvents ==
    [kind : {"message"}, sender : AuthUsers, state_key : {NoneOpt},
     membership : {"none"}]
      \cup [kind : {"member"}, sender : AuthUsers, state_key : StateKeys,
            membership : {"join", "leave", "ban", "invite", "knock"}]

\* state.get(key): Some(event id) or None
StateGet(state, key) ==
    IF key \in DOMAIN state THEN SomeOpt(state[key]) ELSE NoneOpt

\* auth_events.push(id) when the state holds the key
PushIfSome(auth_events, o) ==
    IF o = NoneOpt THEN auth_events ELSE Append(auth_events, Unwrap(o))

\* the member branch with the join-rules event pushed for every membership
MemberAuthEvents_allrules(state, event, auth_events) ==
    PushIfSome(PushIfSome(auth_events,
                          StateGet(state, MemberKey(Unwrap(event.state_key)))),
               StateGet(state, JoinRulesKey))

\* add_event, the member branch: the target's member event, and the
\* join-rules event for Join and Invite
MemberAuthEvents(state, event, auth_events) ==
    LET a == PushIfSome(auth_events,
                        StateGet(state, MemberKey(Unwrap(event.state_key))))
    IN  IF event.membership \in {"join", "invite"}
          THEN PushIfSome(a, StateGet(state, JoinRulesKey))
          ELSE a

\* add_event: the auth_events vector as it stands before the Ok(String::new())
add_event_auth_events(state, event) ==
    IF CreateKey \notin DOMAIN state THEN "panic"
    ELSE IF event.kind = "member" /\ event.state_key = NoneOpt THEN "panic"
    ELSE LET a1 == <<state[CreateKey]>>
             a2 == PushIfSome(a1, StateGet(state, PowerLevelsKey))
             a3 == PushIfSome(a2, StateGet(state, MemberKey(as_str(event.sender))))
         IN  IF event.kind = "member"
               THEN MemberAuthEvents(state, event, a3)
               ELSE a3

\* add_event on a resolved state, up to the list it has built
BuildAuthEvents(state, event) ==
    /\ acall' = [op |-> "add_event", state |-> state, event |-> event,
                 auth_events |-> add_event_auth_events(state, event)]
    /\ UNCHANGED <<storeVars, syncVars, histVars, periodVars, wq>>
    /\ UNCHANGED <<aroom, alast, lv, qcall, acctVars, idcall, typingVars, sent_ok,
                   low_banned, calls>>

\* send_event: try_auth, record_txn, EventContent::new, set_typing(false),
\* add_event, each leaving through `?` or the TxnIdExists return
send_event(tokens, txns, rs, token, txn_id, room, content_ok) ==
    LET username == try_auth(tokens, token)
        r == record_txn(txns, token, txn_id)
    IN  IF username = NoneOpt
          THEN [result |-> "UnknownToken", txn_ids |-> txns, typed |-> FALSE]
        ELSE IF ~r.first
          THEN [result |-> "TxnIdExists", txn_ids |-> r.txn_ids, typed |-> FALSE]
        ELSE IF ~content_ok
          THEN [result |-> "BadJson", txn_ids |-> r.txn_ids, typed |-> FALSE]
        ELSE IF room \notin DOMAIN rs
          THEN [result |-> "RoomNotFound", txn_ids |-> r.txn_ids, typed |-> FALSE]
        ELSE [result |-> "Ok", txn_ids |-> r.txn_ids, typed |-> TRUE]

\* the send_event handler
SendEvent(token, txn_id, room, content_ok) ==
    /\ LET r == send_event(access_tokens, txn_ids, rooms, token, txn_id, room,
                           content_ok)
       IN /\ txn_ids' = r.txn_ids
          /\ ures' = [op |-> "send_event", token |-> token, txn_id |-> txn_id,
                      room |-> room, result |-> r.result,
                      recorded |-> token \in DOMAIN txn_ids
                                     /\ txn_id \in txn_ids[token]]
          /\ sent_ok' = IF r.result = "Ok" THEN sent_ok \cup {<<token, txn_id>>}
                        ELSE sent_ok
          /\ rooms' = IF r.typed
                        THEN [rooms EXCEPT ![room].typing =
                                @ \ {Unwrap(try_auth(access_tokens, token))}]
                        ELSE rooms
          /\ queries' = IF r.typed THEN Notify(queries, {room}) ELSE queries
          /\ wq' = IF r.typed THEN NotifyQuery(wq, {room}, {}, "set_typing") ELSE wq
    /\ UNCHANGED <<users, access_tokens, callers, registered, issued, txnlog>>
    /\ UNCHANGED <<batches, appended, addRes, histVars, periodVars>>
    /\ UNCHANGED <<pc, since, full_state, batch, next_batch_id, res,
                   memberships, todo, cur, something_happened, won>>
    /\ UNCHANGED <<aroom, alast, lv, qcall, idcall, typingVars, acall, low_banned,
                   calls>>

\* Vec::reverse
Reverse(s) == [i \in 1..Len(s) |-> s[Len(s) + 1 - i]]

\* the store and caller variables a read handler leaves alone
ReadFrame ==
    /\ UNCHANGED <<storeVars, syncVars, histVars, periodVars, wq>>
    /\ UNCHANGED <<aroom, alast, lv, qcall, acctVars, idcall, typingVars,
                   sent_ok, low_banned, calls>>

\* the record of a read handler's call: the caller's membership in the room
\* when the handler ran, the result and the events handed to the caller
ReadCall(op, room, result, events) ==
    [op |-> op, room |-> room, membership |-> get_membership(rooms, room),
     result |-> result, events |-> events]

\* client_api::get_event for User: Forbidden unless the membership is Join
GetEvent(room, event_id) ==
    /\ acall' =
         IF get_membership(rooms, room) # "join"
           THEN ReadCall("get_event", room, "Forbidden", <<>>)
         ELSE IF get_pdu(rooms, room, event_id) = {}
           THEN ReadCall("get_event", room, "NotFound", <<>>)
         ELSE ReadCall("get_event", room, "ok",
                       <<CHOOSE p \in get_pdu(rooms, room, event_id) : TRUE>>)
    /\ ReadFrame

\* client_api::get_state_event_inner for User: Forbidden unless the
\* membership is Join, then the current state event of the type
GetStateEvent(room, kind) ==
    /\ acall' =
         IF get_membership(rooms, room) # "join"
           THEN ReadCall("get_state_event", room, "Forbidden", <<>>)
         ELSE LET found == SelectSeq(get_full_state(rooms, room),
                                     LAMBDA e : e.kind = kind)
              IN  IF found = <<>>
                    THEN ReadCall("get_state_event", room, "NotFound", <<>>)
                    ELSE ReadCall("get_state_event", room, "ok", found)
    /\ ReadFrame

\* client_api::get_state and get_members for User: Join passes, another
\* membership is Unimplemented, none is Forbidden; get_members retains the
\* member events of the full state
GetState(room, members_only) ==
    /\ acall' =
         LET op == IF members_only THEN "get_members" ELSE "get_state"
             m == get_membership(rooms, room)
         IN  IF m = NoMembership THEN ReadCall(op, room, "Forbidden", <<>>)
             ELSE IF m # "join" THEN ReadCall(op, room, "Unimplemented", <<>>)
             ELSE ReadCall(op, room, "ok",
                    IF members_only
                      THEN SelectSeq(get_full_state(rooms, room),
                                     LAMBDA e : e.kind = "member")
                      ELSE get_full_state(rooms, room))
    /\ ReadFrame

\* client_api::messages for User: the timeline from `from` to its end,
\* reversed for dir = b; the caller's membership is never read
Messages(room, from, backward) ==
    /\ acall' =
         IF room \notin DOMAIN rooms
           THEN ReadCall("messages", room, "RoomNotFound", <<>>)
         ELSE LET events == query_events(rooms[room].events, from, NoneOpt)[1]
              IN  ReadCall("messages", room, "ok",
                           IF backward THEN Reverse(events) ELSE events)
    /\ ReadFrame

\* ------------------------------- sync calls running side by side: the cursor
\* what a call of the concurrent sync model leaves alone
CallFrame ==
    /\ UNCHANGED <<rooms, appended, addRes, syncVars, histVars, periodVars, wq>>
    /\ UNCHANGED <<aroom, alast, lv, qcall, acctVars, idcall, typingVars,
                   acall, sent_ok, low_banned>>

\* the since tokens a client can put in a request
SinceValues == {NoneOpt} \cup {SomeOpt(i) : i \in 1..MaxSyncIds}

\* format!("{:x}", rand::random::<u64>()): an id that no call has drawn
\* before
UsedIds(bs, cs) ==
    DOMAIN bs \cup {cs[c].next_batch_id : c \in {d \in DOMAIN cs : cs[d].pc # "idle"}}
NewBatchId(bs, cs) ==
    CHOOSE i \in (1..MaxSyncIds) \ UsedIds(bs, cs) :
        \A j \in (1..MaxSyncIds) \ UsedIds(bs, cs) : i <= j

\* a call that persists its cursor under the token it was given
BatchKey_since(call) ==
    IF call.since = NoneOpt THEN call.next_batch_id ELSE Unwrap(call.since)

\* the id every set_batch of sync writes under: &next_batch_id
BatchKey(call) == call.next_batch_id

\* sync, from try_auth to the memberships: get_batch under `since`, the new
\* next_batch_id and the caller's membership of every room
CallStart(c, s) ==
    /\ calls[c].pc \in {"idle", "returned"}
    /\ (1..MaxSyncIds) \ UsedIds(batches, calls) # {}
    /\ LET ms == [r \in {x \in DOMAIN rooms :
                           get_membership(rooms, x) # NoMembership} |->
                     get_membership(rooms, r)]
           b == get_batch(batches, s)
       IN calls' = [calls EXCEPT ![c] =
            [pc |-> "eval", since |-> s,
             known |-> (s # NoneOpt /\ Unwrap(s) \in DOMAIN batches),
             start |-> b, batch |-> b,
             next_batch_id |-> NewBatchId(batches, calls),
             memberships |-> ms, todo |-> EvalRooms(ms, b),
             something_happened |-> FALSE]]
    /\ UNCHANGED batches
    /\ CallFrame

\* one arm of the first loop: Join queries the timeline from the cursor,
\* drops the invite mark and advances the cursor; Invite sets the mark
CallRoom(c, room) ==
    /\ calls[c].pc = "eval"
    /\ room \in calls[c].todo
    /\ room \in DOMAIN rooms
    /\ LET call == calls[c]
           q == query_events(rooms[room].events, BatchPos(call.batch, room),
                             NoneOpt)
       IN calls' = [calls EXCEPT ![c] =
            IF call.memberships[room] = "join"
              THEN [call EXCEPT
                      !.batch = AdvanceCursor(UnmarkInvite(call.batch, room),
                                              room, q[2]),
                      !.something_happened = (@ \/ q[1] # <<>>),
                      !.todo = @ \ {room}]
              ELSE [call EXCEPT !.batch = MarkInvite(call.batch, room),
                                !.todo = @ \ {room}]]
    /\ UNCHANGED batches
    /\ CallFrame

\* the three returns that persist the first-phase cursor: something
\* happened, no joined room, or the timeout of select!
CallPersist(c) ==
    /\ calls[c].pc = "eval"
    /\ calls[c].todo = {}
    /\ batches' = set_batch(batches, BatchKey(calls[c]), calls[c].batch)
    /\ calls' = [calls EXCEPT ![c].pc = "returned"]
    /\ CallFrame

\* select!: the wait=true query of a joined room won with events: the
\* cursor insert and set_batch
CallWon(c, room) ==
    /\ calls[c].pc = "eval"
    /\ calls[c].todo = {}
    /\ ~calls[c].something_happened
    /\ room \in JoinedRooms(calls[c].memberships)
    /\ room \in DOMAIN rooms
    /\ LET q == query_events(rooms[room].events,
                             BatchPos(calls[c].batch, room), NoneOpt)
           b == AdvanceCursor(calls[c].batch, room, q[2])
       IN /\ q[1] # <<>>
          /\ batches' = set_batch(batches, BatchKey(calls[c]), b)
          /\ calls' = [calls EXCEPT ![c].pc = "returned", ![c].batch = b]
    /\ CallFrame

\* MemStorageHandle::get_user_account_data: the account data of the first
\* user with the username, an empty map for an unknown username; always Ok
get_user_account_data(us, username) ==
    [ok |-> TRUE,
     data |-> IF HasUser(us, username)
                THEN us[CHOOSE i \in 1..Len(us) :
                          /\ us[i].username = username
                          /\ \A j \in 1..(i - 1) : us[j].username # username
                       ].account_data
                ELSE <<>>]

\* client_api::check_username_available: exists is is_ok() of
\* get_user_account_data, available its negation
check_username_available(us, username) ==
    LET exists == get_user_account_data(us, username).ok
    IN  [available |-> ~exists]

\* GET /register/available; the record keeps whether a user with the name
\* was in the store and what create_user would have answered
CheckUsernameAvailable(username) ==
    /\ ures' = [op |-> "check_username_available", username |-> username,
                available |-> check_username_available(users, username).available,
                stored |-> HasUser(users, username),
                create_ok |-> create_user(users, username, <<>>).ok]
    /\ UNCHANGED <<users, access_tokens, txn_ids, callers, registered, issued, txnlog>>
    /\ UNCHANGED <<storeVars, syncVars, histVars, periodVars, wq>>
    /\ UNCHANGED <<aroom, alast, lv, qcall, extraVars>>

Next ==
    \/ \E pdus \in BatchInputs : AddPdus(pdus)
    \/ \E room \in RoomIds, is_typing \in BOOLEAN : SetTyping(room, is_typing)
    \/ \E fs \in BOOLEAN : SyncStart(fs)
    \/ \E room \in RoomIds : SyncGetMembership(room)
    \/ \E room \in RoomIds : SyncJoinQuery(room)
    \/ SyncJoinRest
    \/ \E room \in RoomIds : SyncInvite(room)
    \/ SyncRespondNow
    \/ SyncNoRooms
    \/ SyncSleepDone
    \/ SyncEnterSelect
    \/ SyncTimeout
    \/ \E room \in RoomIds : SyncQueryPoll(room)
    \/ \E room \in RoomIds : SyncQueryWake(room)
    \/ SyncWon

vars == <<storeVars, syncVars, histVars, periodVars, wq, pureVars>>

\* the sync coordinator over the store and its writers
Spec == Init /\ [][Next]_vars

\* the steps of the sync call itself: every one of them is a poll of the
\* handler's future, a lock acquisition of the fair tokio RwLock or the
\* firing of a tokio timer
SyncStep ==
    \/ \E room \in RoomIds : SyncGetMembership(room)
    \/ \E room \in RoomIds : SyncJoinQuery(room)
    \/ SyncJoinRest
    \/ \E room \in RoomIds : SyncInvite(room)
    \/ SyncRespondNow
    \/ SyncNoRooms
    \/ SyncSleepDone
    \/ SyncEnterSelect
    \/ SyncTimeout
    \/ \E room \in RoomIds : SyncQueryPoll(room)
    \/ \E room \in RoomIds : SyncQueryWake(room)
    \/ SyncWon

\* add_pdus of the writers that run beside a sync call under fairness
LiveAddPdus(pdus) ==
    /\ TotalAppended + Len(pdus) <= MaxLiveEvents
    /\ AddPdus(pdus)

NextLive ==
    \/ \E pdus \in BatchInputs : LiveAddPdus(pdus)
    \/ \E room \in RoomIds, is_typing \in BOOLEAN : SetTyping(room, is_typing)
    \/ \E fs \in BOOLEAN : SyncStart(fs)
    \/ SyncStep

\* the sync coordinator under a fair runtime: a sync call that can take a
\* step is not passed over for ever, whatever the writers do
SpecLive == Init /\ [][NextLive]_vars /\ WF_vars(SyncStep)

\* the storage engine and the append helper on their own
NextStore ==
    \/ \E pdus \in BatchInputs : AddPdus(pdus)
    \/ \E room \in RoomIds, is_typing \in BOOLEAN : SetTyping(room, is_typing)
    \/ \E room \in RoomIds, kind \in {"message", "member"} : AddEvent(room, kind)

SpecStore == Init /\ [][NextStore]_vars

\* one wait=true query against the writers of its room (query_pdus does not
\* read a pdu's content, so the appended pdus are Create and message pdus)
NextWait ==
    \/ \E p \in {x \in PduInputs : x.kind # "member"} : AddPdus(<<p>>)
    \/ \E room \in RoomIds, is_typing \in BOOLEAN : SetTyping(room, is_typing)
    \/ \E room \in RoomIds, t \in EphemeralTypes,
          c \in {NoneOpt} \cup {SomeOpt(x) : x \in EphemeralContents} :
            SetEphemeral(room, t, c)
    \/ \E room \in RoomIds, from \in 0..MaxEvents : WaitQueryStart(room, from)
    \/ WaitQueryResume

SpecWait == Init /\ [][NextWait]_vars

\* validate_member_event against every member event
NextAuth == \E event \in MemberEvents : MemberEvent(event)

SpecAuth == InitAuth /\ [][NextAuth]_vars

\* the power-level computations over every input
NextLevels ==
    \/ \E creator \in AuthUsers, user \in AuthUsers, event_type \in EventTypes,
          is_state_event \in BOOLEAN :
            DefaultLevels(creator, user, event_type, is_state_event)
    \/ \E sender \in AuthUsers, auth \in AuthLists : SenderLevel(sender, auth)
    \/ \E pl \in LevelValues : Accessors(pl)

SpecLevels == Init /\ [][NextLevels]_vars

\* query_pdus against every query
NextQuery == \E room \in RoomIds, query \in Queries : Query(room, query)

SpecQuery == InitQuery /\ [][NextQuery]_vars

\* two callers of create_user against each other
NextUsers ==
    \/ \E c \in Callers, username \in Usernames, password \in Passwords,
          salt \in Salts : CreateUserHash(c, username, password, salt)
    \/ \E c \in Callers : CreateUserLocked(c)
    \/ \E username \in Usernames, d \in DisplayNames : SetDisplayName(username, d)

SpecUsers == Init /\ [][NextUsers]_vars

\* the authentication handlers over the account store
NextAuthn ==
    \/ \E username \in Usernames, password \in Passwords, salt \in Salts,
          inhibit_login \in BOOLEAN :
            Register(username, password, salt, inhibit_login)
    \/ \E user \in LoginIdentifiers, password \in Passwords : Login(user, password)
    \/ \E token \in Tokens : Logout(token)
    \/ \E token \in Tokens : LogoutAll(token)

SpecAuthn == Init /\ [][NextAuthn]_vars

\* the callers of record_txn, one call at a time under the write lock
NextTxn == \E token \in 1..MaxTokens, txn_id \in TxnStrings : RecordTxn(token, txn_id)

SpecTxn == Init /\ [][NextTxn]_vars

\* the identifier conversions
NextId ==
    \/ \E P \in {"@", "!"} : RoundTrip(P)
    \/ \E local \in RandomLocals, domain \in Domains : RandomRoomId(local, domain)

SpecId == InitId /\ [][NextId]_vars

\* the typing entries of a room against the clock
NextTyping ==
    \/ Tick
    \/ \E user_id \in AuthUsers, is_typing \in BOOLEAN, timeout \in Timeouts :
          TypingSet(user_id, is_typing, timeout)
    \/ \E event_type \in {"m.typing"} \cup EphemeralTypes : GetEphemeral(event_type)
    \/ GetAllEphemeral

SpecTyping == InitTyping /\ [][NextTyping]_vars

\* the auth-event list of add_event over every resolved state and event
NextAuthList ==
    \E state \in ResolvedStates, event \in NewEvents : BuildAuthEvents(state, event)

SpecAuthList == Init /\ [][NextAuthList]_vars

\* send_event calls of the logged-in users and of an unknown token
NextSend ==
    \E token \in Tokens, txn_id \in TxnStrings, room \in RoomIds,
       content_ok \in BOOLEAN : SendEvent(token, txn_id, room, content_ok)

SpecSend == InitSend /\ [][NextSend]_vars

\* member events against rooms with a banned user
NextBan == \E event \in MemberEvents : WatchedMemberEvent(event)

SpecBan == InitBan /\ [][NextBan]_vars

\* the event ids a caller can ask for
EventIds == {EventId(r, n) : r \in RoomIds, n \in 1..MaxEvents}

\* the read handlers of the client API against a store that grows
NextRead ==
    \/ \E pdus \in BatchInputs : AddPdus(pdus)
    \/ \E room \in RoomIds, event_id \in EventIds : GetEvent(room, event_id)
    \/ \E room \in RoomIds, kind \in {"create", "member", "message"} :
            GetStateEvent(room, kind)
    \/ \E room \in RoomIds, members_only \in BOOLEAN :
            GetState(room, members_only)
    \/ \E room \in RoomIds, from \in 0..MaxEvents, backward \in BOOLEAN :
            Messages(room, from, backward)

SpecRead == Init /\ [][NextRead]_vars

\* add_pdus of the writers beside the concurrent calls: they write to one
\* room
CallAddPdus(pdus) ==
    /\ \A i \in 1..Len(pdus) : pdus[i].room = "r1"
    /\ LiveAddPdus(pdus)

\* sync calls of two clients side by side, each with any since token, while
\* the room grows
NextCalls ==
    \/ \E pdus \in BatchInputs : CallAddPdus(pdus)
    \/ \E c \in SyncCallers, s \in SinceValues : CallStart(c, s)
    \/ \E c \in SyncCallers, room \in RoomIds : CallRoom(c, room)
    \/ \E c \in SyncCallers : CallPersist(c)
    \/ \E c \in SyncCallers, room \in RoomIds : CallWon(c, room)

SpecCalls == Init /\ [][NextCalls]_vars

\* the availability check beside the callers of create_user
NextAvail ==
    \/ \E c \in Callers, username \in Usernames, password \in Passwords,
          salt \in Salts : CreateUserHash(c, username, password, salt)
    \/ \E c \in Callers : CreateUserLocked(c)
    \/ \E username \in Usernames : CheckUsernameAvailable(username)

SpecAvail == Init /\ [][NextAvail]_vars

\* ------------------------------------------------------------- properties
\* the cursor the running call was given
ReqBatch == get_batch(batches, since)

\* the user's membership has been Join ever since the user first joined
StaysJoined(r) == get_membership(rooms, r) = "join" /\ r \notin unjoined

\* C1: a Timeline query of a room from index 0 with no upper bound returns
\* exactly the pdus appended under that room id, each once, in append order
C1_FullTimelineIsAppendLog ==
    \A r \in DOMAIN rooms :
        query_pdus_eval(rooms[r].events, 0, NoneOpt).events = appended[r]

\* C2: a suspended wait=true query has been woken whenever its room holds
\* events appended after it found the room empty past its cursor
C2_AppendWakesWaiter ==
    \A r \in DOMAIN queries :
        (queries[r].st = "waiting" /\ Len(rooms[r].events) - 1 > queries[r].to)
            => queries[r].notified

\* C3: every timeline event a response of the chain delivers lies at or past
\* the room's position in the request cursor, and no earlier response of the
\* chain delivered it
C3_NoDoubleDelivery ==
    pc = "returned" =>
        \A r \in DOMAIN res.join :
            res.join[r].timeline # <<>> =>
                /\ lo[r] >= BatchPos(ReqBatch, r)
                /\ Ids(res.join[r].timeline) \cap delivered = {}

\* C4: while the user stays joined, every event of the room below the
\* persisted cursor position has been delivered by a response of the chain
C4_NoEventLost ==
    pc = "returned" =>
        \A r \in DOMAIN batches[next_batch_id].rooms :
            StaysJoined(r) =>
                \A i \in 1..Len(rooms[r].events) :
                    i <= batches[next_batch_id].rooms[r] =>
                        rooms[r].events[i].id \in delivered \cup ResIds(res)

\* C5: a call that saw data when it evaluated a joined room responds on the
\* immediate path with that data and never reaches the wait phase; a query
\* is suspended only after an evaluation that returned nothing
C5_DataRespondsImmediately ==
    /\ hadData => pc \in {"eval", "join_rest", "decide", "returned"}
    /\ (hadData /\ pc = "returned") => path = "immediate"
    /\ (hadData /\ pc \in {"decide", "returned"}) =>
          /\ something_happened
          /\ \E r \in DOMAIN res.join :
                res.join[r].timeline # <<>> \/ res.join[r].state # <<>>
    /\ \A r \in DOMAIN queries :
          queries[r].st = "waiting" =>
              /\ queries[r].to < queries[r].from
              /\ ~hadData

\* C6: a call that has responded, on whichever path, has stored under its
\* next_batch a Batch that holds, for every joined room it queried, one past
\* the last index it looked at, and the mark of every invite it delivered
C6_ResponseCursorPersisted ==
    pc = "returned" =>
        /\ path \in {"immediate", "nojoin", "timeout", "wait"}
        /\ next_batch_id \in DOMAIN batches
        /\ \A r \in DOMAIN covered :
              /\ r \in DOMAIN batches[next_batch_id].rooms
              /\ batches[next_batch_id].rooms[r] = covered[r] + 1
        /\ DOMAIN res.invite \subseteq batches[next_batch_id].invites

\* C7: a successful add_event leaves its event as the last element of the
\* room's timeline, one longer than before, findable by the returned id
C7_AddEventAppends ==
    addRes.ok =>
        /\ get_pdu(rooms, addRes.room, addRes.event_id) # {}
        /\ Len(rooms[addRes.room].events) > addRes.len

\* C8: no step removes a room or an event of a room, or moves an event
C8_TimelineNeverShrinks ==
    [][\A r \in DOMAIN rooms :
          /\ r \in DOMAIN rooms'
          /\ Len(rooms'[r].events) >= Len(rooms[r].events)
          /\ SubSeq(rooms'[r].events, 1, Len(rooms[r].events)) = rooms[r].events]_vars

W_C5_ImmediateDelta ==
    /\ pc = "returned" /\ hadData /\ path = "immediate" /\ since # NoneOpt
    /\ \E r \in DOMAIN res.join : res.join[r].timeline # <<>> /\ lo[r] > 0

\* the timer won while the response carried a freshly computed invite
W_C6_TimeoutWithInvite ==
    /\ pc = "returned" /\ path = "timeout"
    /\ res.invite # <<>>
    /\ covered # <<>>

C11_NotifyingWriteWakes ==
    (wq.st = "waiting" /\ wq.writers \cap {"set_typing", "set_ephemeral"} # {})
        => ENABLED WaitQueryResume

\* both kinds of write reached a suspended query before it ran: the
\* receiver lags
W_C11_LaggedWaiter ==
    /\ wq.st = "waiting"
    /\ wq.writers = {"set_typing", "set_ephemeral"}
    /\ wq.sent = 2
    /\ ~wq.closed

\* the last validate_member_event call was for a member event of the given
\* kind, sent by s, whose state key names the user t
MemberCall(membership, s, t) ==
    /\ alast.called
    /\ alast.event.membership = membership
    /\ alast.event.sender = s
    /\ alast.event.state_key = SomeOpt(as_str(t))

\* C12: a Join member event for somebody else is InvalidEvent; one's own join
\* is accepted after Join or Invite, UserBanned after Ban, and otherwise
\* accepted exactly when the join rule is Public, UserNotInvited when it is
\* not or when there is no join-rules event
C12_JoinDecision ==
    \A s \in AuthUsers, t \in AuthUsers :
        MemberCall("join", s, t) =>
            LET prev == alast.db.members[t]
            IN /\ t # s => alast.result = "InvalidEvent"
               /\ (t = s /\ prev \in {SomeOpt("join"), SomeOpt("invite")})
                    => alast.result = "Ok"
               /\ (t = s /\ prev = SomeOpt("ban")) => alast.result = "UserBanned"
               /\ (t = s /\ prev \in {NoneOpt, SomeOpt("leave"), SomeOpt("knock")})
                    => /\ alast.result = "Ok"
                         <=> alast.db.join_rule = SomeOpt("public")
                       /\ alast.db.join_rule # SomeOpt("public")
                            => alast.result = "UserNotInvited"

W_C12_NoJoinRulesEvent ==
    /\ MemberCall("join", Bob, Bob)
    /\ alast.db.members[Bob] = SomeOpt("leave")
    /\ alast.db.join_rule = NoneOpt
    /\ alast.result = "UserNotInvited"

\* C13: a Leave, Ban or Invite member event from a sender whose membership is
\* not Join is UserNotInRoom, whoever the target is and whatever the sender's
\* power level
C13_SenderMustBeJoined ==
    \A s \in AuthUsers, t \in AuthUsers, m \in {"leave", "ban", "invite"} :
        (MemberCall(m, s, t) /\ alast.db.members[s] # SomeOpt("join"))
            => alast.result = "UserNotInRoom"

W_C13_PowerfulOutsider ==
    /\ MemberCall("ban", Alice, Bob)
    /\ alast.db.members[Alice] = NoneOpt
    /\ get_user_level(alast.db.power_levels, Alice) = 100
    /\ alast.result = "UserNotInRoom"

\* C14: from a joined sender a kick, a Ban and an Invite are accepted exactly
\* when the sender's level is at least the kick, ban and invite level, and
\* are InsufficientPowerLevel otherwise; leaving oneself is always accepted
C14_PowerThresholds ==
    \A s \in AuthUsers, t \in AuthUsers :
        LET pl == alast.db.power_levels
            level == get_user_level(pl, s)
            Decided(threshold) ==
                alast.result = IF level >= threshold THEN "Ok"
                               ELSE "InsufficientPowerLevel"
        IN alast.called /\ alast.db.members[s] = SomeOpt("join") =>
            /\ (MemberCall("leave", s, t) /\ t # s) => Decided(UnwrapOr(pl.kick, 50))
            /\ MemberCall("ban", s, t) => Decided(UnwrapOr(pl.ban, 50))
            /\ MemberCall("invite", s, t) => Decided(UnwrapOr(pl.invite, 50))
            /\ MemberCall("leave", s, s) => alast.result = "Ok"

W_C14_KickAtThreshold ==
    /\ MemberCall("leave", Bob, Alice)
    /\ alast.db.members[Bob] = SomeOpt("join")
    /\ get_user_level(alast.db.power_levels, Bob) = 50
    /\ alast.db.power_levels.kick = NoneOpt
    /\ alast.result = "Ok"

\* the room of the last call has no power-levels event and join rule Invite
InviteOnlyNoLevels(call) ==
    /\ call.db.power_levels = no_event_default_levels(Alice)
    /\ call.db.join_rule = SomeOpt("invite")

\* C15: in a room with no power-levels event and join rule Invite, the join
\* of a user who was never invited is UserNotInvited, and once a joined user
\* has invited that user the same join is accepted
C15_InviteThenJoin ==
    /\ [](\A t \in AuthUsers :
            (/\ MemberCall("join", t, t)
             /\ InviteOnlyNoLevels(alast)
             /\ alast.db.members[t] = NoneOpt)
                => alast.result = "UserNotInvited")
    /\ [][\A s \in AuthUsers, t \in AuthUsers :
            (/\ MemberCall("invite", s, t)
             /\ InviteOnlyNoLevels(alast)
             /\ alast.db.members[s] = SomeOpt("join")
             /\ alast.db.members[t] = NoneOpt
             /\ alast.result = "Ok"
             /\ alast'.called
             /\ alast'.event = [sender |-> t, state_key |-> SomeOpt(as_str(t)),
                                membership |-> "join"])
                => alast'.result = "Ok"]_vars

W_C15_JoinedAfterInvite ==
    /\ MemberCall("join", Bob, Bob)
    /\ InviteOnlyNoLevels(alast)
    /\ alast.db.members[Alice] = SomeOpt("join")
    /\ alast.db.members[Bob] = SomeOpt("invite")
    /\ alast.result = "Ok"

\* C17: a Knock member event is answered with a returned Unimplemented error
\* and never with a panic
C17_KnockReturnsUnimplemented ==
    \A s \in AuthUsers, t \in AuthUsers :
        MemberCall("knock", s, t) => alast.result = "Unimplemented"

\* C16: add_event accepts a non-membership event only from a sender whose
\* membership in the room is Join (and whose level reaches the event's level);
\* from any other sender the call fails with UserNotInRoom
C16_AddEventChecksSender ==
    (addRes.ok /\ addRes.kind = "message") => addRes.sender_membership = "join"

\* the creators named by the create events among these auth events
Creators(auth) ==
    {auth[i].creator : i \in {j \in 1..Len(auth) : auth[j].kind = "create"}}

\* C18: without power-levels event the creator has level 100 and everybody
\* else 0, state_default and events_default are 0 and ban, invite, kick and
\* redact are 50; get_sender_power_level on an event whose auth events hold
\* the create event and no power-levels event is 100 for the creator, else 0
C18_NoEventLevels ==
    /\ lv.op = "defaults" =>
        /\ lv.user_level = IF lv.user = lv.creator THEN 100 ELSE 0
        /\ lv.state_default = 0 /\ lv.events_default = 0
        /\ lv.event_level = 0
        /\ lv.ban = 50 /\ lv.invite = 50 /\ lv.kick = 50 /\ lv.redact = 50
    /\ (/\ lv.op = "sender"
        /\ \A i \in 1..Len(lv.auth) : lv.auth[i].kind \in {"create", "member", "join_rules"}
        /\ \E c \in AuthUsers : Creators(lv.auth) = {c})
          => lv.result = IF lv.sender \in Creators(lv.auth) THEN 100 ELSE 0

W_C18_OtherUserOfStateEvent ==
    /\ lv.op = "defaults" /\ lv.user # lv.creator /\ lv.is_state_event
    /\ lv.user_level = 0 /\ lv.event_level = 0

\* the pdus of a timeline at the (0-based) indices of S that match the
\* query's filters, in index order
AtIndices(ev, query, S) ==
    LET F[i \in 0..Len(ev)] ==
            IF i = 0 THEN <<>>
            ELSE IF (i - 1) \in S /\ matches(query, ev[i])
              THEN Append(F[i - 1], ev[i]) ELSE F[i - 1]
    IN  F[Len(ev)]

\* C19 as stated: a Timeline query returns the matching events at the indices
\* from <= i < to, and with to absent those from index from to the last event
C19_TimelineRangeHalfOpen ==
    qcall.op = "timeline" =>
        LET q == qcall.query
            n == Len(qcall.room_events)
        IN qcall.events = AtIndices(qcall.room_events, q,
              IF q.to = NoneOpt THEN q.from..(n - 1)
              ELSE q.from..(Unwrap(q.to) - 1))

\* C19: a Timeline query returns the matching events at the indices
\* from <= i <= to when to is below the number of events and nothing when it
\* is not, and with to absent those from index from to the last event
C19_TimelineRangeInclusive ==
    qcall.op = "timeline" =>
        LET q == qcall.query
            n == Len(qcall.room_events)
        IN qcall.events = AtIndices(qcall.room_events, q,
              IF q.to = NoneOpt THEN q.from..(n - 1)
              ELSE IF Unwrap(q.to) < n THEN q.from..Unwrap(q.to)
              ELSE {})

W_C19_UpperBoundReturned ==
    /\ qcall.op = "timeline"
    /\ qcall.query.to = SomeOpt(1) /\ qcall.query.from = 0
    /\ qcall.query.types = {} /\ qcall.query.not_types = {}
    /\ Len(qcall.room_events) = 3
    /\ qcall.events = SubSeq(qcall.room_events, 1, 2)

\* C20: a State-mode query returns at most one event per event type and
\* state key, the latest of the range, in insertion order
C20_StateLatestPerKey ==
    qcall.op = "state" =>
        \A i \in 1..Len(qcall.events), j \in 1..Len(qcall.events) :
            (i < j /\ IsState(qcall.events[i]) /\ IsState(qcall.events[j]))
                => qcall.events[i].kind # qcall.events[j].kind

\* C21: create_user fails with UsernameTaken exactly when the username exists
\* and then changes no user; otherwise it adds the user; the store never holds
\* two users of one name, and of two calls in flight together for a free name
\* exactly one succeeds
C21_CreateUserUnique ==
    /\ [](\A i \in 1..Len(users), j \in 1..Len(users) :
            users[i].username = users[j].username => i = j)
    /\ [](\A c \in Callers, o \in Callers :
            (/\ c # o
             /\ callers[c].st = "done" /\ callers[o].st = "done"
             /\ callers[c].raced /\ callers[o].raced
             /\ callers[c].username = callers[o].username)
                => callers[c].result # callers[o].result)
    /\ [][\A c \in Callers :
            (callers[c].st = "hashed" /\ callers'[c].st = "done") =>
                /\ callers'[c].result = "UsernameTaken"
                      <=> HasUser(users, callers[c].username)
                /\ callers'[c].result = "UsernameTaken" => users' = users
                /\ callers'[c].result = "Ok" =>
                      /\ Len(users') = Len(users) + 1
                      /\ SubSeq(users', 1, Len(users)) = users
                      /\ users'[Len(users')].username = callers[c].username]_vars

W_C21_RaceDecided ==
    /\ callers["c1"].st = "done" /\ callers["c2"].st = "done"
    /\ callers["c1"].raced /\ callers["c2"].raced
    /\ callers["c1"].username = callers["c2"].username
    /\ callers["c1"].result = "UsernameTaken" /\ callers["c2"].result = "Ok"

\* C22: once register(u, p) has succeeded, login(u, p) succeeds with a token
\* that resolves to u; login with another password or an unknown username is
\* Forbidden and creates no token
C22_LoginAfterRegister ==
    ures.op = "login" =>
        /\ <<ures.username, ures.password>> \in registered =>
              /\ ures.result = "Ok"
              /\ ures.token # NoneOpt
              /\ ures.resolves = SomeOpt(ures.username)
        /\ <<ures.username, ures.password>> \notin registered =>
              /\ ures.result = "Forbidden"
              /\ ures.token = NoneOpt
              /\ ~ures.created

W_C22_WrongPassword ==
    /\ ures.op = "login" /\ ures.result = "Forbidden"
    /\ \E p \in Passwords : <<ures.username, p>> \in registered

\* C23: delete_access_token(t) stops exactly t from resolving;
\* delete_all_access_tokens(t) stops exactly the tokens of t's user from
\* resolving, and nothing when t is unknown
C23_LogoutFrame ==
    [][/\ ures'.op = "logout" =>
            \A t \in Tokens :
                try_auth(access_tokens', t) =
                    IF t = ures'.token THEN NoneOpt
                    ELSE try_auth(access_tokens, t)
       /\ ures'.op = "logout_all" =>
            LET u == try_auth(access_tokens, ures'.token)
            IN \A t \in Tokens :
                try_auth(access_tokens', t) =
                    IF u # NoneOpt /\ try_auth(access_tokens, t) = u THEN NoneOpt
                    ELSE try_auth(access_tokens, t)]_vars

W_C23_OtherTokenOfUserKept ==
    /\ ures.op = "logout" /\ ures.user # NoneOpt
    /\ ures.token \notin DOMAIN access_tokens
    /\ \E t \in DOMAIN access_tokens : SomeOpt(access_tokens[t]) = ures.user

\* C24: record_txn(token, txn) is true exactly on the first call with that
\* pair, whatever was recorded for other tokens, so of all the calls with one
\* pair exactly one returns true
C24_RecordTxnFirstOnly ==
    /\ [](\A k \in DOMAIN txnlog : txnlog[k].trues = 1)
    /\ [][ures'.op = "record_txn" =>
            (ures'.result <=> <<ures'.token, ures'.txn_id>> \notin DOMAIN txnlog)]_vars

W_C24_SameTxnOtherToken ==
    /\ ures.op = "record_txn" /\ ures.result
    /\ \E t \in DOMAIN txn_ids :
          /\ t # ures.token
          /\ ures.txn_id \in txn_ids[t]
          /\ txnlog[<<t, ures.txn_id>>].calls >= 2

\* C25: a string that parses as a user id or a room id prints back to itself
\* and parses again to the same identifier, a domain with a port included; a
\* room id of new_with_random_local parses back from its own string
C25_IdRoundTrip ==
    /\ (idcall.op = "roundtrip" /\ idcall.parsed # NoneOpt) =>
          /\ idcall.printed = idcall.s
          /\ idcall.reparsed = idcall.parsed
    /\ idcall.op = "random" =>
          /\ idcall.id # NoneOpt
          /\ idcall.reparsed = idcall.id

W_C25_PortKept ==
    /\ idcall.op = "roundtrip" /\ idcall.P = "@"
    /\ idcall.s = <<"@", "a", ":", "a", ":", "8">>
    /\ idcall.parsed = SomeOpt([localpart |-> <<"a">>, domain |-> <<"a", ":", "8">>])

\* C26: a wait=true timeline query evaluates at most twice; it returns from
\* its first evaluation exactly when that evaluation yields an event; once
\* suspended it returns only after new events exist in its room, and new
\* events in its room let it resume
C26_WaitUntilNewEvents ==
    /\ wq.evals <= 2
    /\ (wq.st = "done" /\ wq.evals = 1) => wq.events # <<>>
    /\ (wq.st = "done" /\ wq.evals = 2) => wq.timeline_end > wq.to
    /\ (wq.st = "waiting" /\ Len(rooms[wq.room].events) - 1 > wq.to)
          => ENABLED WaitQueryResume

C28_SyncReturns ==
    /\ (pc \notin {"idle", "returned"}) ~> (pc = "returned")
    /\ [](pc = "select" => ENABLED SyncTimeout)
    /\ []((pc = "returned" /\ path = "timeout") =>
            \A r \in DOMAIN res.join : res.join[r].timeline = <<>>)

\* the timer won although a writer had appended to a joined room while the
\* call was waiting
W_C28_TimerAfterAppend ==
    /\ pc = "returned" /\ path = "timeout"
    /\ \E r \in DOMAIN res.join :
          /\ r \in DOMAIN covered
          /\ Len(rooms[r].events) - 1 > covered[r]
          /\ res.join[r].timeline = <<>>

\* C29: each of ban(), invite(), kick() and redact() returns its own field
\* when that is set and 50 when it is not, events_default() its field or 0,
\* state_default() its field or 50
C29_AccessorsOwnField ==
    lv.op = "accessors" =>
        /\ lv.ban = UnwrapOr(lv.pl.ban, 50)
        /\ lv.invite = UnwrapOr(lv.pl.invite, 50)
        /\ lv.kick = UnwrapOr(lv.pl.kick, 50)
        /\ lv.redact = UnwrapOr(lv.pl.redact, 50)
        /\ lv.events_default = UnwrapOr(lv.pl.events_default, 0)
        /\ lv.state_default = UnwrapOr(lv.pl.state_default, 50)

\* the users of a typing map whose expiry instant is strictly later than now
LiveAt(typing, now) == {u \in DOMAIN typing : ~(typing[u] <= now)}

\* C30: a read of m.typing, by get_ephemeral or by get_all_ephemeral, returns
\* exactly the users whose entry expires strictly after the read instant and
\* leaves every entry in place; set_typing(user, true, t) sets the user's
\* expiry to now + t and set_typing(user, false, _) removes the user's entry,
\* both leaving the other users' entries alone
C30_TypingExpiry ==
    /\ (tcall.op = "get_ephemeral" /\ tcall.event_type = "m.typing") =>
          tcall.result = SomeOpt(LiveAt(tcall.before, tcall.now))
    /\ tcall.op = "get_all_ephemeral" =>
          /\ "m.typing" \in DOMAIN tcall.result
          /\ tcall.result["m.typing"] = LiveAt(tcall.before, tcall.now)
    /\ tcall.op \in {"get_ephemeral", "get_all_ephemeral"} =>
          troom.typing = tcall.before
    /\ tcall.op = "set_typing" =>
          /\ \A u \in AuthUsers \ {tcall.user_id} :
                /\ (u \in DOMAIN troom.typing <=> u \in DOMAIN tcall.before)
                /\ u \in DOMAIN tcall.before => troom.typing[u] = tcall.before[u]
          /\ tcall.is_typing =>
                /\ tcall.user_id \in DOMAIN troom.typing
                /\ troom.typing[tcall.user_id] = tcall.now + tcall.timeout
          /\ ~tcall.is_typing => tcall.user_id \notin DOMAIN troom.typing

\* a read at the very instant one user's entry expires, with another user
\* still typing: the first is left out of the result and stays in the map
W_C30_ReadAtExpiry ==
    /\ tcall.op = "get_all_ephemeral"
    /\ tcall.now > 0
    /\ \E u \in DOMAIN troom.typing, v \in DOMAIN troom.typing :
          /\ troom.typing[u] = tcall.now
          /\ u \notin tcall.result["m.typing"]
          /\ v \in tcall.result["m.typing"]

\* the ids a list references
Referenced(auth_events) == {auth_events[i] : i \in 1..Len(auth_events)}

\* C31: the list add_event builds for a non-create event references the
\* create event, the power-levels event when the state holds one, the
\* sender's member event when there is one, for a member event also the
\* target's member event when there is one and, for Join and Invite only,
\* the join-rules event when there is one, and nothing else
C31_AuthEventList ==
    (acall.op = "add_event" /\ acall.auth_events # "panic") =>
        LET state == acall.state
            event == acall.event
            wanted == {CreateKey, PowerLevelsKey, MemberKey(as_str(event.sender))}
                        \cup (IF event.kind = "member"
                                THEN {MemberKey(Unwrap(event.state_key))}
                                ELSE {})
                        \cup (IF event.kind = "member"
                                 /\ event.membership \in {"join", "invite"}
                                THEN {JoinRulesKey} ELSE {})
        IN  /\ CreateKey \in DOMAIN state
            /\ Referenced(acall.auth_events) =
                  {state[k] : k \in wanted \cap DOMAIN state}

\* a Leave event of one user about another in a room with join rules: the
\* list holds both member events and not the join-rules event
W_C31_LeaveWithoutJoinRules ==
    /\ acall.op = "add_event"
    /\ acall.event.kind = "member" /\ acall.event.membership = "leave"
    /\ acall.event.sender = Alice
    /\ acall.event.state_key = SomeOpt(as_str(Bob))
    /\ JoinRulesKey \in DOMAIN acall.state
    /\ acall.auth_events # "panic"
    /\ Len(acall.auth_events) = 4
    /\ acall.state[JoinRulesKey] \notin Referenced(acall.auth_events)

\* C32: every room of the store has a non-empty timeline whose first event
\* is a Create and which holds no other Create
C32_RootedInOneCreate ==
    \A r \in DOMAIN rooms :
        /\ Len(rooms[r].events) >= 1
        /\ rooms[r].events[1].kind = "create"
        /\ \A i \in 2..Len(rooms[r].events) : rooms[r].events[i].kind # "create"

\* a room that got a second Create and further events after it
W_C32_SecondCreate ==
    \E r \in DOMAIN rooms :
        /\ Len(rooms[r].events) >= 2
        /\ Len(appended[r]) > Len(rooms[r].events)
        /\ \E i \in 2..Len(appended[r]) : appended[r][i].kind = "create"

\* the add_pdus call on this batch ends in RoomNotFound
AddPdusFails(pdus) ==
    AddPdusLoop([rooms |-> rooms, appended |-> appended,
                 dropped |-> {}, err |-> FALSE], pdus).err

\* C34: an add_pdus call that fails with RoomNotFound has appended no event
\* of its batch and has created or replaced no room
C34_AddPdusAllOrNothing ==
    [][\A pdus \in BatchInputs :
          (AddPdusFails(pdus) /\ AddPdus(pdus)) =>
              /\ rooms' = rooms
              /\ appended' = appended]_vars

\* C33: send_event answers TxnIdExists for a (token, transaction id) pair
\* only when an earlier send_event with that pair succeeded
C33_TxnIdExistsOnlyAfterSuccess ==
    (ures.op = "send_event" /\ ures.result = "TxnIdExists") =>
        <<ures.token, ures.txn_id>> \in sent_ok

\* C35: a user whose membership was Ban is not brought to Join by accepted
\* member events whose senders are all below the room's ban threshold
C35_BanOutlastsLowSenders ==
    \A u \in low_banned : aroom.members[u] # SomeOpt("join")

\* C36: a read handler (get_event, get_state_event, get_state, get_members,
\* messages) hands a room's events to the caller only if the caller's
\* membership in that room is Join when the handler runs
ReadOps == {"get_event", "get_state_event", "get_state", "get_members",
            "messages"}
C36_ReadOnlyWhenJoined ==
    (acall.op \in ReadOps /\ acall.result = "ok" /\ acall.events # <<>>) =>
        acall.membership = "join"

\* the ids of the events of room r appended while User's membership in r,
\* having been Join, was no longer Join, and User has not joined again since
AfterUnjoin(r) ==
    IF r \notin DOMAIN rooms THEN {}
    ELSE LET ev == rooms[r].events
             mem(i) == {j \in 1..(i - 1) : ev[j].kind = "member"}
             last(i) == CHOOSE j \in mem(i) : \A k \in mem(i) : k <= j
         IN  {ev[i].id : i \in {n \in 1..Len(ev) :
                /\ mem(n) # {}
                /\ ev[last(n)].membership # "join"
                /\ \E k \in mem(n) : ev[k].membership = "join"
                /\ \A k \in n..Len(ev) :
                      ~(ev[k].kind = "member" /\ ev[k].membership = "join")}}

\* C37: a sync response holds no timeline event that was appended after the
\* caller's membership in the room stopped being Join
C37_NothingAfterUnjoin ==
    \A r \in RoomIds : ResIds(res) \cap AfterUnjoin(r) = {}

\* C38: sync never modifies a stored Batch, the one under its since token
\* included: every set_batch goes to a new id, so the Batch a call read under
\* a stored since token is still the Batch stored under it, whatever the
\* other calls do
BatchesKept ==
    \A id \in DOMAIN batches : id \in DOMAIN batches' /\ batches'[id] = batches[id]
SinceBatchAsRead ==
    \A c \in SyncCallers :
        (calls[c].pc # "idle" /\ calls[c].known) =>
            /\ Unwrap(calls[c].since) \in DOMAIN batches
            /\ batches[Unwrap(calls[c].since)] = calls[c].start
C38_SinceBatchNeverModified ==
    [][BatchesKept]_vars /\ []SinceBatchAsRead

\* two calls were given the same stored since token; one has returned with a
\* cursor that differs from the one it started from, the other runs
W_C38_ReplaySameSince ==
    /\ calls[1].pc = "returned" /\ calls[2].pc = "eval"
    /\ calls[1].known /\ calls[2].known
    /\ calls[1].since = calls[2].since
    /\ calls[1].batch # calls[1].start
    /\ batches[calls[1].next_batch_id] = calls[1].batch
    /\ calls[2].start = calls[1].start

\* C39: a sync call whose first phase put an invite payload into the
\* response never suspends, neither in sleep(timeout) nor in select!, before
\* it returns that payload
C39_InviteReturnsAtOnce ==
    pc \in {"sleeping", "select"} => DOMAIN res.invite = {}

\* C40: check_username_available answers available = true exactly when no
\* user with the username is in the store, and available = false exactly
\* when create_user for the username would fail with UsernameTaken
C40_AvailableIffNoUser ==
    ures.op = "check_username_available" =>
        /\ ures.available <=> ~ures.stored
        /\ ~ures.available <=> ~ures.create_ok

====
